---- MODULE Spec2Model ----
(***************************************************************************)
(* Model of my-cam-control.                                                *)
(*                                                                         *)
(* Part 1: the action-queue worker of main.py (do_worker, do_action,       *)
(* capture_channel) against the tables xcam_actions and xcam_cameras.      *)
(* Part 2: capture_frame_robust of CamHelper.py, stepped one strategy      *)
(* invocation at a time.                                                   *)
(*                                                                         *)
(* Environment of part 1: rows are inserted into xcam_actions by an        *)
(* external producer; every database call may raise; external processes    *)
(* (connectivity test, capture, stitch) may fail; the worker process may   *)
(* die at any step and be started again.  Writes to the local file system  *)
(* (makedirs, the metadata file) succeed.  created_at is strictly          *)
(* increasing in insertion order, so "ORDER BY created_at DESC LIMIT 1"    *)
(* is the pending row with the greatest id.                                *)
(***************************************************************************)
EXTENDS Integers, Sequences, FiniteSets, TLC

\* Number of rows the producer inserts into xcam_actions when it draws them
\* from BasicKinds, and when it draws them from JobKinds.
MaxJobs == 2
MaxRichJobs == 1

(***************************************************************************)
(* DbHelper.ActionStatus; ABSENT is a row not inserted yet.                *)
(***************************************************************************)
PENDING == "pending"
IN_PROGRESS == "in_progress"
DONE == "done"
FAILED == "failed"
ABSENT == "absent"

\* ActionType and FieldNames are imported by main.py from DbHelper; the
\* values are those of the job payload in the specification.
CHECK_CONFIG == "check_config"
CAPTURE_AND_STITCHING == "capture_and_stitch"
UNKNOWN_COMMAND == "reboot"

Commands == {CHECK_CONFIG, CAPTURE_AND_STITCHING, UNKNOWN_COMMAND}

\* MAC addresses of the rows of xcam_cameras, in the order select_all
\* returns them, and a MAC address that has no row.
CamOrder == <<"m1", "m2", "m3">>
CamMacs == {"m1", "m2", "m3"}
NoSuchMac == "mx"

(***************************************************************************)
(* The additions column.  text = "garbage" is a string json.loads rejects, *)
(* "number" is valid JSON that is not an object, "object" is a JSON object *)
(* whose keys are given by has_mac / has_channels.                         *)
(***************************************************************************)
Addition(text, has_mac, macs, has_channels, chs) ==
    [text |-> text, has_mac |-> has_mac, mac_addresses |-> macs,
     has_channels |-> has_channels, channels |-> chs]

Garbage == Addition("garbage", FALSE, {}, FALSE, <<>>)
JsonNumber == Addition("number", FALSE, {}, FALSE, <<>>)
EmptyObject == Addition("object", FALSE, {}, FALSE, <<>>)
Macs(macs) == Addition("object", TRUE, macs, FALSE, <<>>)
MacsChannels(macs, chs) == Addition("object", TRUE, macs, TRUE, chs)

\* The rows the producer may insert: command and additions.
JobKinds ==
    { [command |-> CHECK_CONFIG, additions |-> Macs({"m1", "m2"})],
      [command |-> CHECK_CONFIG, additions |-> MacsChannels({"m1"}, <<1, 2>>)],
      [command |-> CHECK_CONFIG, additions |-> EmptyObject],
      [command |-> CHECK_CONFIG, additions |-> JsonNumber],
      [command |-> CAPTURE_AND_STITCHING, additions |-> Macs({"m1", "m2"})],
      [command |-> CAPTURE_AND_STITCHING, additions |-> Macs({"m1", "m2", "m3"})],
      [command |-> CAPTURE_AND_STITCHING, additions |-> MacsChannels({"m1", "m2"}, <<1, 2>>)],
      [command |-> CAPTURE_AND_STITCHING, additions |-> Macs({"m1", NoSuchMac})],
      [command |-> CAPTURE_AND_STITCHING, additions |-> Macs({NoSuchMac})],
      [command |-> CAPTURE_AND_STITCHING, additions |-> MacsChannels({"m1"}, <<3>>)],
      [command |-> CAPTURE_AND_STITCHING, additions |-> Garbage],
      [command |-> UNKNOWN_COMMAND, additions |-> Macs({"m1"})],
      [command |-> CHECK_CONFIG, additions |-> MacsChannels({"m1", "m2"}, <<>>)],
      [command |-> UNKNOWN_COMMAND, additions |-> Garbage] }

\* The rows of a producer that fills the queue with several jobs.
BasicKinds ==
    { [command |-> CHECK_CONFIG, additions |-> Macs({"m1", "m2"})],
      [command |-> CAPTURE_AND_STITCHING, additions |-> Macs({"m1", NoSuchMac})],
      [command |-> UNKNOWN_COMMAND, additions |-> Macs({"m1"})],
      [command |-> CAPTURE_AND_STITCHING, additions |-> Garbage] }

\* The rows of a producer of capture-and-stitch jobs: the default channel,
\* channels listed in descending order, a channel listed twice, three
\* cameras; and one check_config job.
StitchKinds ==
    { [command |-> CAPTURE_AND_STITCHING, additions |-> Macs({"m1", "m2"})],
      [command |-> CAPTURE_AND_STITCHING, additions |-> MacsChannels({"m1", "m2"}, <<2, 1>>)],
      [command |-> CAPTURE_AND_STITCHING, additions |-> MacsChannels({"m1", "m2"}, <<1, 1>>)],
      [command |-> CAPTURE_AND_STITCHING, additions |-> MacsChannels({"m1", "m2", "m3"}, <<1, 2>>)],
      [command |-> CHECK_CONFIG, additions |-> Macs({"m1"})] }

\* What the producer will insert: how many rows, of which kinds.
Producers ==
    { [rows |-> MaxJobs, kinds |-> BasicKinds],
      [rows |-> MaxRichJobs, kinds |-> JobKinds] }

\* common.str2dict: json.loads, and {} when it raises.
str2dict(xstr) ==
    IF xstr.text = "garbage" THEN EmptyObject ELSE xstr

\* How an external process run by subprocess.run can end.
ProcOutcomes == {"rc0", "rc_nonzero", "timeout", "error"}

\* CamHelper.test_rtsp_connection: True only for return code 0.
test_rtsp_connection(o) ==
    IF o = "rc0" THEN TRUE
    ELSE IF o = "rc_nonzero" THEN FALSE
    ELSE IF o = "timeout" THEN FALSE
    ELSE FALSE

\* main.capture_channel: "raise" or "path", given the outcome of the
\* connectivity test and the value capture_frame_robust returns.
capture_channel(test_outcome, robust) ==
    IF ~test_rtsp_connection(test_outcome) THEN "raise"
    ELSE IF ~robust THEN "raise"
    ELSE "path"

\* What get_cam_config can return to do_worker: the camera cache and is_cached.
\* ips is the discovered address of each camera.
IpsA == [m \in CamMacs |-> IF m = "m1" THEN "ip1" ELSE IF m = "m2" THEN "ip2" ELSE "ip3"]
IpsB == [m \in CamMacs |-> IF m = "m1" THEN "ip4" ELSE IF m = "m2" THEN "ip2" ELSE "ip3"]
CamConfigs ==
    { [cameras |-> 0, has_updated_at |-> FALSE, is_cached |-> FALSE, ips |-> IpsA],
      [cameras |-> 3, has_updated_at |-> TRUE, is_cached |-> TRUE, ips |-> IpsA],
      [cameras |-> 3, has_updated_at |-> TRUE, is_cached |-> FALSE, ips |-> IpsA],
      [cameras |-> 3, has_updated_at |-> TRUE, is_cached |-> FALSE, ips |-> IpsB] }

\* CamHelper.invalid_cam_config
invalid_cam_config(cam_config) ==
    ~cam_config.has_updated_at \/ cam_config.cameras = 0

(***************************************************************************)
(* CamHelper: frame validation and the capture strategies.                 *)
(***************************************************************************)
\* common.MAX_RETRIES and the thresholds of validate_frame.
MAX_RETRIES == 3
MinFileSize == 1000
MinDimension == 100
MinBrightness == 5
MaxBrightness == 250

\* A file at the output path: whether it exists, its size in bytes, whether
\* PIL can open it, its dimensions and its mean brightness (0..255).
Frame(exists, size, readable, width, height, brightness) ==
    [exists |-> exists, size |-> size, readable |-> readable,
     width |-> width, height |-> height, brightness |-> brightness]

NoFile == Frame(FALSE, 0, FALSE, 0, 0, 0)

Frames ==
    { NoFile,
      Frame(TRUE, 50000, TRUE, 1920, 1080, 128),
      Frame(TRUE, 999, TRUE, 1920, 1080, 128),
      Frame(TRUE, 50000, FALSE, 0, 0, 0),
      Frame(TRUE, 50000, TRUE, 99, 1080, 128),
      Frame(TRUE, 50000, TRUE, 1920, 1080, 0),
      Frame(TRUE, 50000, TRUE, 1920, 1080, 255) }

\* CamHelper.validate_frame
validate_frame(f) ==
    IF ~f.exists THEN FALSE
    ELSE IF f.size < MinFileSize THEN FALSE
    ELSE IF ~f.readable THEN FALSE                  \* Image.open raises
    ELSE IF f.width < MinDimension \/ f.height < MinDimension THEN FALSE
    ELSE IF f.brightness < MinBrightness \/ f.brightness > MaxBrightness THEN FALSE
    ELSE TRUE

\* Variant: the UDP strategy is listed before the TCP strategy.
methods_udp_first == <<"capture_with_udp_transport", "capture_with_tcp_transport",
                       "capture_with_different_codec">>

\* capture_frame_robust's list "methods".
methods == <<"capture_with_tcp_transport", "capture_with_udp_transport",
             "capture_with_different_codec">>

\* capture_with_tcp_transport, capture_with_udp_transport and
\* capture_with_different_codec: "return result.returncode == 0", and
\* subprocess.run raises on a timeout or when ffmpeg cannot be run.
StrategyReturn(o) ==
    IF o = "rc0" THEN "true"
    ELSE IF o = "rc_nonzero" THEN "false"
    ELSE "raise"

\* capture_frame_robust lines 116-126: what one iteration of the loop over
\* the methods makes of the strategy's outcome and the file it left.
AttemptResult(o, f) ==
    IF StrategyReturn(o) = "raise" THEN "raised"
    ELSE IF StrategyReturn(o) = "false" THEN "failed"
    ELSE IF validate_frame(f) THEN "accepted"
    ELSE "invalid"


(***************************************************************************)
(* EzvizCam.TimelapseWorker and the folders it works on.                   *)
(***************************************************************************)
\* The largest frame_count a run starts from (a run starts from an empty
\* session or from one that holds MaxFrames frames), the largest sharpness
\* and the number of bursts in a row.
MaxFrames == 2
MaxScore == 2
MaxBursts == 2

\* capture_best_frame: "for i in range(3)".
BurstSize == 3

\* capture_best_frame line 159 and cleanup_old_backups line 23.
BackupCleanupEvery == 50
KeptBackups == 100

\* The content of a file: where it came from and the sharpness
\* get_frame_sharpness computes for it.
Content(kind, id, sharpness) == [kind |-> kind, id |-> id, sharpness |-> sharpness]

\* No file of that name.
NoContent == Content("none", 0, 0)

\* A file a copy gave up on part-way.
Partial == Content("partial", 0, 0)

\* frame_NNNNNN.jpg and backup_NNNNNN.jpg: the indices a folder can hold.
FrameIdx == 1..(MaxFrames + 1)

Scores == 0..MaxScore

\* The indices of the files present in a folder.
Present(dir) == {k \in DOMAIN dir : dir[k] # NoContent}

\* FrameHelper.cleanup_old_backups: the backups left when the listing has
\* more than 100 names.
cleanup_old_backups(dir) ==
    LET listed == Present(dir)
    IN IF Cardinality(listed) > KeptBackups
       THEN LET first == CHOOSE k \in listed :
                             Cardinality({j \in listed : j >= k}) = KeptBackups
            IN [k \in DOMAIN dir |-> IF k >= first THEN dir[k] ELSE NoContent]
       ELSE dir

\* Variant: ">=", the latest of equally sharp candidates wins.
SharperOrEqual(sharpness, best_score) == sharpness >= best_score

\* capture_best_frame line 126: "if sharpness > best_score".
Sharper(sharpness, best_score) == sharpness > best_score

(***************************************************************************)
(* The session folder, the scratch folder and the video folder of          *)
(* renumber_frames_for_video and TimelapseWorker.create_video.             *)
(***************************************************************************)
\* The largest frame index of a session and the number of create_video calls.
MaxIndex == 4
MaxCalls == 2

\* create_video line 180: "if len(frame_files) < 2".
MinVideoFrames == 2

SessionIdx == 1..MaxIndex

\* The frame indices a session folder holds when the recording stops.
SessionShapes == {{}, {1}, {1, 2}, {2, 3}, {1, 3, 4}}

\* The frame files of session number ses with the indices in shape.
SessionFrames(ses, shape) ==
    [k \in SessionIdx |-> IF k \in shape THEN Content("frame", <<ses, k>>, 0) ELSE NoContent]

EmptyFolder == [k \in SessionIdx |-> NoContent]

\* common.get_session_frames: sorted(glob("frame_*.jpg")), as the sequence
\* of the indices present in increasing order (names are zero padded).
RECURSIVE SortedIdx(_)
SortedIdx(S) ==
    IF S = {} THEN <<>>
    ELSE LET m == CHOOSE x \in S : \A y \in S : x <= y
         IN <<m>> \o SortedIdx(S \ {m})

get_session_frames(dir) == SortedIdx(Present(dir))

\* Session file names (status["current_video"]) as their parts.
VideoNames == {<<"output", ".mp4">>, <<"output", ".mkv">>}

\* create_video line 207: output_path.replace(".mp4", "_tmp.mp4").
temp_output(output_path) ==
    [n \in DOMAIN output_path |->
        IF output_path[n] = ".mp4" THEN "_tmp.mp4" ELSE output_path[n]]

VideoPaths == VideoNames \cup {temp_output(n) : n \in VideoNames}

\* A complete video of a session, and a video that was there before.
Encoded(ses) == Content("video", ses, 0)
OldVideo == Content("video", 0, 0)

(***************************************************************************)
(* TimelapseWorker.run, the signal handler and finalize_video.             *)
(***************************************************************************)
\* The number of sessions the control file asks for and the number of
\* shutdown signals delivered to the process.
MaxSessions == 2
MaxSignals == 1

\* run line 318: "if self.error_count >= 5".
ErrorThreshold == 5

\* An accepted frame, as the file capture_best_frame stores: stamp is the
\* rank of its acceptance over the life of the process.
Accepted(stamp) == Content("captured", stamp, 0)

\* The stamps of the files in a folder.
Stamps(dir) == {dir[k].id : k \in Present(dir)}

\* Variant: the newest frame file survives the cleanup.
cleanup_session_frames_but_last(dir) ==
    [k \in DOMAIN dir |->
        IF k \in Present(dir) /\ \A j \in Present(dir) : j <= k THEN dir[k] ELSE NoContent]

\* FrameHelper.cleanup_session_frames: every file get_session_frames lists
\* is removed.
cleanup_session_frames(dir) ==
    [k \in DOMAIN dir |->
        IF \E n \in 1..Len(get_session_frames(dir)) : get_session_frames(dir)[n] = k
        THEN NoContent ELSE dir[k]]

\* renumber_frames_for_video when every file operation succeeds: the n-th
\* listed frame becomes frame n.
Renumbered(dir) ==
    LET files == get_session_frames(dir)
    IN [k \in DOMAIN dir |-> IF k <= Len(files) THEN dir[files[k]] ELSE NoContent]

(***************************************************************************)
(* The backup folder: cleanup_old_backups on its own, and the backups      *)
(* written over a sequence of sessions.                                    *)
(***************************************************************************)
\* The largest index of a backup file and the number of frames accepted
\* over all sessions.
MaxBackupIdx == 200
MaxAccepts == 201

BackupIdx == 1..MaxBackupIdx

\* The backup folder with the files backup_{lo} .. backup_{hi}.
BackupRange(lo, hi) ==
    [k \in BackupIdx |-> IF lo <= k /\ k <= hi THEN Accepted(k) ELSE NoContent]

\* The indices of S between lo and hi in increasing order (merge of the
\* two halves of the range).
RECURSIVE SortRange(_, _, _)
SortRange(S, lo, hi) ==
    IF lo > hi THEN <<>>
    ELSE IF lo = hi THEN (IF lo \in S THEN <<lo>> ELSE <<>>)
    ELSE SortRange(S, lo, (lo + hi) \div 2) \o SortRange(S, (lo + hi) \div 2 + 1, hi)

\* sorted(os.listdir(BACKUP_FOLDER)) restricted to backup_*: the indices
\* present in increasing order.
sorted_backups(dir) == SortRange(Present(dir), 1, MaxBackupIdx)

\* Variant: the slice [:100], the first 100 names of the listing.
files_to_remove_first_hundred(backup_files) ==
    SubSeq(backup_files, 1, KeptBackups)

\* cleanup_old_backups line 24: backup_files[:-100].
files_to_remove(backup_files) ==
    SubSeq(backup_files, 1, Len(backup_files) - KeptBackups)

VARIABLES
    producer,     \* the producer of the rows of xcam_actions
    actions,      \* table xcam_actions: id -> [status, kind]
    cameras,      \* table xcam_cameras: mac -> ip_address
    folders,      \* ids of the jobs whose capture_<timestamp> directory exists
    pc,           \* where the worker process is
    cur,          \* id of the row do_worker selected, 0 for none
    w,            \* locals of do_action
    execCount,    \* history: id -> number of calls of do_action for the row
    effects,      \* history: external operations invoked for the current job
    cycle,        \* history: what the current call of do_worker has done
    crashed,      \* history: rows the process died on while working
    cf,           \* one call of capture_frame_robust
    vf,           \* one call of validate_frame
    tw,           \* the TimelapseWorker, its folders and the burst it is in
    vid,          \* the session folder, the video folder and one create_video
    sch,          \* TimelapseWorker.run: the loop, the signal handler, the folders
    bk,           \* the backup folder and the calls that write and prune it
    ups,          \* control.json and one caller of update_processing_status
    wk            \* two worker processes on one xcam_actions table

workerVars == <<producer, actions, cameras, folders, pc, cur, w, execCount, effects, cycle, crashed>>

\* The variables of the functions checked on their own.
libVars == <<cf, vf, tw, vid, sch, bk, ups, wk>>

\* All variables but cf, but vf, but tw, but vid, but sch, but bk, but ups,
\* but wk.
exceptCapture == <<workerVars, vf, tw, vid, sch, bk, ups, wk>>
exceptValidate == <<workerVars, cf, tw, vid, sch, bk, ups, wk>>
exceptTimelapse == <<workerVars, cf, vf, vid, sch, bk, ups, wk>>
exceptVideo == <<workerVars, cf, vf, tw, sch, bk, ups, wk>>
exceptRun == <<workerVars, cf, vf, tw, vid, bk, ups, wk>>
exceptBackups == <<workerVars, cf, vf, tw, vid, sch, ups, wk>>
exceptUpdate == <<workerVars, cf, vf, tw, vid, sch, bk, wk>>
exceptWorkers == <<workerVars, cf, vf, tw, vid, sch, bk, ups>>

vars == <<producer, actions, cameras, folders, pc, cur, w, execCount, effects, cycle, crashed, cf, vf, tw, vid, sch, bk, ups, wk>>

JobIds == 1..(IF MaxJobs > MaxRichJobs THEN MaxJobs ELSE MaxRichJobs)

NoMeta ==
    [written |-> FALSE, total_cameras |-> 0, channels |-> <<>>,
     successful_captures |-> 0, captures |-> <<>>, stitched_images |-> {}]

\* The locals of do_action at its entry (action_status = ActionStatus.DONE).
InitLocals ==
    [addition |-> EmptyObject, action_status |-> DONE, cam_infos |-> <<>>,
     channels |-> <<>>, k |-> 0, attempts |-> <<>>, captured_files |-> <<>>,
     capture_info |-> <<>>,
     groups |-> <<>>, g |-> 0, stitched_images |-> {}, stitch_calls |-> <<>>,
     metadata |-> NoMeta, tests |-> <<>>, raised |-> FALSE]

\* History of one call of do_worker: whether a pending row existed when it
\* selected, the row it selected, the rows it moved to in_progress, the calls
\* of do_action, the rows it wrote, and xcam_cameras after its upsert.
NewCycle ==
    [pending |-> FALSE, selected |-> 0, claimed |-> {}, handlers |-> 0,
     writes |-> {}, cameras |-> IpsA]

\* capture_frame_robust is not running.
IdleCapture ==
    [pc |-> "idle", retry_count |-> 0, i |-> 0, log |-> <<>>, result |-> "none",
     file |-> NoFile, sleeps |-> 0]

\* validate_frame is not running.
IdleValidate == [pc |-> "idle", frame |-> NoFile, result |-> FALSE]

\* The TimelapseWorker is in no call; its folders are empty.
IdleTimelapse ==
    [pc |-> "idle", frame_count |-> 0,
     frames |-> [k \in FrameIdx |-> NoContent],
     backups |-> [k \in FrameIdx |-> NoContent],
     temps |-> [k \in 0..(BurstSize - 1) |-> NoContent],
     i |-> 0, temp_frames |-> <<>>, best_frame |-> -1, best_score |-> -1,
     result |-> "none", burst |-> 0,
     before |-> [frame_count |-> 0,
                 frames |-> [k \in FrameIdx |-> NoContent],
                 backups |-> [k \in FrameIdx |-> NoContent]]]

\* create_video is not running; the folders are empty.
IdleVideo ==
    [pc |-> "idle", name |-> <<"output", ".mp4">>, session |-> 0, calls |-> 0,
     frames |-> EmptyFolder, scratch |-> EmptyFolder,
     videos |-> [v \in VideoPaths |-> NoContent],
     processing |-> FALSE,
     frame_files |-> <<>>, i |-> 0, to_move |-> {}, listed |-> 0, first_seen |-> FALSE,
     rn |-> "none", enc |-> "none", encoder_calls |-> 0, result |-> "none",
     last_rn |-> EmptyFolder,
     before |-> [frames |-> EmptyFolder, scratch |-> EmptyFolder,
                 videos |-> [v \in VideoPaths |-> NoContent]]]

\* TimelapseWorker.__init__ (lines 16-32), the control file with status
\* "stop", empty folders, no child process.
IdleRun ==
    [pc |-> "startup", hpc |-> "none", ret |-> "tick", signals |-> 0,
     running |-> TRUE, recording |-> FALSE, current_session |-> 0, sessions |-> 0,
     frame_count |-> 0, error_count |-> 0,
     control |-> [status |-> "stop", processing |-> FALSE],
     frames |-> [k \in FrameIdx |-> NoContent],
     backups |-> [k \in FrameIdx |-> NoContent],
     accepted |-> 0, attempted |-> {},
     encoders |-> 0, capturing |-> FALSE, overlap |-> {},
     ok |-> [t \in {"main", "handler"} |-> FALSE],
     result |-> "none", removed |-> 0,
     tick |-> [status |-> "none", processing |-> FALSE, disk |-> "unchecked",
               outcome |-> "none"]]

\* A backup folder without any backup_* file.
NoBackups == [k \in BackupIdx |-> NoContent]

\* No call on the backup folder, and no folder looked at.
IdleBackups ==
    [pc |-> "idle",
     dir |-> <<>>,
     before |-> <<>>,
     to_remove |-> <<>>, i |-> 0,
     frame_count |-> 0, accepted |-> 0, sessions |-> 0,
     purged |-> {}, overwritten |-> {}]

\* read_status line 78: what a read that fails returns.
DefaultStatus == [status |-> "stop", processing |-> FALSE]

\* update_processing_status is not called and control.json is not looked at.
IdleUpdate ==
    [pc |-> "idle", processing |-> FALSE, status |-> DefaultStatus,
     file |-> DefaultStatus, surface |-> "stop", calls |-> 0, writes |-> 0]

\* No second worker process: nothing polls the table of this model.
IdleWorkers ==
    [pc |-> <<>>, action |-> <<>>, status |-> <<>>, rows |-> <<>>,
     marked |-> <<>>, handlers |-> <<>>]

Init ==
    /\ producer \in Producers
    /\ actions = [j \in JobIds |-> [status |-> ABSENT, kind |-> CHOOSE x \in JobKinds : TRUE]]
    /\ cameras = IpsA
    /\ folders = {}
    /\ pc = "poll"
    /\ cur = 0
    /\ w = InitLocals
    /\ execCount = [j \in JobIds |-> 0]
    /\ effects = {}
    /\ cycle = NewCycle
    /\ crashed = {}
    /\ ups = IdleUpdate
    /\ wk = IdleWorkers
    /\ cf = IdleCapture
    /\ vf = IdleValidate
    /\ tw = IdleTimelapse
    /\ vid = IdleVideo
    /\ sch = IdleRun
    /\ bk = IdleBackups

(***************************************************************************)
(* Database operations on xcam_actions.                                    *)
(***************************************************************************)
Max(S) == CHOOSE x \in S : \A y \in S : y <= x

\* The rows "status = 'pending'" selects.
PendingRows(tbl) == {j \in JobIds : tbl[j].status = PENDING}

\* Variant: the selection also matches failed rows (a retrying worker).
select_pending_or_failed(tbl) ==
    LET rows == {j \in JobIds : tbl[j].status \in {PENDING, FAILED}}
    IN IF rows = {} THEN 0 ELSE Max(rows)

\* DbHelper.select_first_order_by(ACTION, status = 'pending', created_at, 'desc'):
\* the id of the newest pending row, 0 when there is none.
select_first_order_by(tbl) ==
    IF PendingRows(tbl) = {} THEN 0 ELSE Max(PendingRows(tbl))

\* DbHelper.update_by_id(ACTION, id, {status: st}): UPDATE ... WHERE id = %s.
update_by_id(tbl, id, st) ==
    [tbl EXCEPT ![id].status = st]

\* Variant: the UPDATE has no WHERE clause, every row becomes in_progress.
MarkEveryRow(tbl, id) ==
    [j \in JobIds |-> IF tbl[j].status = ABSENT THEN tbl[j]
                      ELSE [tbl[j] EXCEPT !.status = IN_PROGRESS]]

\* Variant: the row is not marked before the work starts.
MarkNothing(tbl, id) == tbl

\* Variant: every pending row is marked in_progress, not only the selected one.
MarkAllPending(tbl, id) ==
    [j \in JobIds |-> IF tbl[j].status = PENDING
                      THEN [tbl[j] EXCEPT !.status = IN_PROGRESS]
                      ELSE tbl[j]]

\* do_worker lines 102-104: the selected row is marked in_progress.
MarkInProgress(tbl, id) == update_by_id(tbl, id, IN_PROGRESS)

\* do_action lines 251-258: the status do_action decided is written to the row.
WriteFinalStatus(tbl, id, action_status) == update_by_id(tbl, id, action_status)

(***************************************************************************)
(* Helpers for the loops of do_action.                                     *)
(***************************************************************************)
\* "for cam_info in cam_infos: for channel in channels": the k-th iteration.
NCombos == Len(w.cam_infos) * Len(w.channels)
ComboCam(k) == w.cam_infos[((k - 1) \div Len(w.channels)) + 1]
ComboChannel(k) == w.channels[((k - 1) % Len(w.channels)) + 1]

\* capture_channel's frame_path: frame_ch{channel}_{ip}.jpg in the job's folder.
FramePath(ip, channel) == <<"frame", channel, ip>>

\* [info['path'] for info in capture_info if info['channel'] == ch]
ChannelFiles(info, ch) ==
    LET OfCh(i) == i.channel = ch
        sel == SelectSeq(info, OfCh)
    IN [i \in 1..Len(sel) |-> sel[i].path]

\* Variant: every requested channel gets a group.
ChannelGroups_all_requested(channels, info) == channels

\* do_action lines 189-193: the keys of the dict channel_captures, in the
\* order of their insertion: the channels that have at least one captured
\* file, each once, at the place of its first occurrence in the list.
ChannelGroups(channels, info) ==
    LET Keeps(i) == /\ ChannelFiles(info, channels[i]) # <<>>
                    /\ \A j \in 1..(i - 1) : channels[j] # channels[i]
        idx == SelectSeq([i \in 1..Len(channels) |-> i], Keeps)
    IN [n \in 1..Len(idx) |-> channels[idx[n]]]

\* The pc values at which do_action, or the parsing before it, is running.
WorkPcs == {"parse", "validate", "dispatch", "capture", "stitch", "check", "finally"}

\* action_status = ActionStatus.FAILED, then the finally block.
FailJob ==
    /\ w' = [w EXCEPT !.action_status = FAILED]
    /\ pc' = "finally"

\* Variant: the status write is not in a finally block, an exception skips it.
RaiseSkipsStatusWrite ==
    /\ w' = [w EXCEPT !.action_status = FAILED, !.raised = TRUE]
    /\ pc' = "sleep"

\* An exception caught by "except Exception" of do_action (lines 244-246).
RaiseInJob ==
    /\ w' = [w EXCEPT !.action_status = FAILED, !.raised = TRUE]
    /\ pc' = "finally"

(***************************************************************************)
(* do_worker                                                               *)
(***************************************************************************)
\* do_worker lines 70-100: camera cache, camera upsert, selection.
do_worker_poll ==
    /\ pc = "poll"
    /\ \E cfg \in CamConfigs, upsert_ok \in BOOLEAN, select_ok \in BOOLEAN :
        IF invalid_cam_config(cfg)
        THEN \* return False: the main loop breaks and the process exits
             /\ pc' = "exited"
             /\ cycle' = [NewCycle EXCEPT !.cameras = cameras]
             /\ UNCHANGED <<actions, cameras, cur>>
        ELSE IF ~cfg.is_cached /\ ~upsert_ok
        THEN \* the upsert raises and rolls back: except Exception, sleep, return True
             /\ pc' = "poll"
             /\ cycle' = [NewCycle EXCEPT !.cameras = cameras]
             /\ UNCHANGED <<actions, cameras, cur>>
        ELSE /\ cameras' = IF cfg.is_cached THEN cameras ELSE cfg.ips
             /\ UNCHANGED actions
             /\ IF ~select_ok \/ select_first_order_by(actions) = 0
                THEN \* the select raises, or "if not action": return True
                     /\ pc' = "poll"
                     /\ cycle' = [NewCycle EXCEPT
                            !.cameras = cameras',
                            !.pending = select_ok /\ PendingRows(actions) # {}]
                     /\ UNCHANGED cur
                ELSE /\ pc' = "claim"
                     /\ cur' = select_first_order_by(actions)
                     /\ cycle' = [NewCycle EXCEPT
                            !.cameras = cameras',
                            !.pending = PendingRows(actions) # {},
                            !.selected = select_first_order_by(actions)]
    /\ UNCHANGED <<libVars, producer, folders, w, execCount, effects, crashed>>

\* do_worker lines 102-104 (and 112-114 when the update raises).
do_worker_claim ==
    /\ pc = "claim"
    /\ \E ok \in BOOLEAN :
        IF ok
        THEN /\ actions' = MarkInProgress(actions, cur)
             /\ pc' = "parse"
             /\ cycle' = [cycle EXCEPT
                    !.claimed = @ \cup {j \in JobIds : actions[j].status = PENDING
                                            /\ actions'[j].status = IN_PROGRESS},
                    !.writes = @ \cup {j \in JobIds : actions'[j] # actions[j]}]
             /\ UNCHANGED cur
        ELSE /\ pc' = "poll"
             /\ cur' = 0
             /\ UNCHANGED <<actions, cycle>>
    /\ UNCHANGED <<libVars, producer, cameras, folders, w, execCount, effects, crashed>>

\* do_worker lines 106-107: str2dict, then the call of do_action
\* (line 124: action_status = ActionStatus.DONE).
do_worker_parse ==
    /\ pc = "parse"
    /\ w' = [InitLocals EXCEPT !.addition = str2dict(actions[cur].kind.additions)]
    /\ execCount' = [execCount EXCEPT ![cur] = @ + 1]
    /\ cycle' = [cycle EXCEPT !.handlers = @ + 1]
    /\ effects' = {}
    /\ pc' = "validate"
    /\ UNCHANGED <<libVars, producer, actions, cameras, folders, cur, crashed>>

(***************************************************************************)
(* do_action                                                               *)
(***************************************************************************)
\* do_action lines 126-153: payload checks and the camera lookup.
do_action_validate ==
    /\ pc = "validate"
    /\ \E select_ok \in BOOLEAN :
        LET a == w.addition
            chs == IF a.has_channels THEN a.channels ELSE <<1>>
            Chosen(m) == m \in a.mac_addresses
            infos == SelectSeq(CamOrder, Chosen)
        IN  IF a.text = "number"
            THEN RaiseInJob           \* "not in" on a non-container: TypeError
            ELSE IF ~a.has_mac
            THEN FailJob
            ELSE IF \E i \in 1..Len(chs) : chs[i] \notin {1, 2}
            THEN FailJob
            ELSE IF ~select_ok
            THEN RaiseInJob           \* select_all raises
            ELSE IF infos = <<>>
            THEN FailJob
            ELSE /\ w' = [w EXCEPT !.cam_infos = infos, !.channels = chs, !.k = 1]
                 /\ pc' = "dispatch"
    /\ UNCHANGED <<libVars, producer, actions, cameras, folders, cur, execCount, effects, cycle, crashed>>

\* Variant: the capture directory is created before the branch on the command.
dispatch_mkdir_first ==
    /\ pc = "dispatch"
    /\ folders' = folders \cup {cur}
    /\ effects' = effects \cup {"mkdir"}
    /\ IF actions[cur].kind.command = CAPTURE_AND_STITCHING
       THEN /\ pc' = "capture"
            /\ UNCHANGED w
       ELSE IF actions[cur].kind.command = CHECK_CONFIG
       THEN /\ pc' = "check"
            /\ UNCHANGED w
       ELSE FailJob
    /\ UNCHANGED <<libVars, producer, actions, cameras, cur, execCount, cycle, crashed>>

\* do_action lines 155-162, 226 and 240-242: the branch on the command.
do_action_dispatch ==
    /\ pc = "dispatch"
    /\ IF actions[cur].kind.command = CAPTURE_AND_STITCHING
       THEN /\ folders' = folders \cup {cur}
            /\ effects' = effects \cup {"mkdir"}
            /\ pc' = "capture"
            /\ UNCHANGED w
       ELSE IF actions[cur].kind.command = CHECK_CONFIG
       THEN /\ pc' = "check"
            /\ UNCHANGED <<folders, effects, w>>
       ELSE /\ FailJob
            /\ UNCHANGED <<folders, effects>>
    /\ UNCHANGED <<libVars, producer, actions, cameras, cur, execCount, cycle, crashed>>

\* do_action lines 165-178: one iteration of the capture loop.
do_action_capture ==
    /\ pc = "capture"
    /\ w.k <= NCombos
    /\ \E t \in ProcOutcomes, robust \in BOOLEAN :
        LET ip == cameras[ComboCam(w.k)]
            ch == ComboChannel(w.k)
            r == capture_channel(t, robust)
        IN  /\ w' = [w EXCEPT
                   !.k = @ + 1,
                   !.attempts = Append(@, [ip |-> ip, channel |-> ch, ok |-> r = "path"]),
                   !.captured_files =
                       IF r = "path" THEN Append(@, FramePath(ip, ch)) ELSE @,
                   !.capture_info =
                       IF r = "path"
                       THEN Append(@, [path |-> FramePath(ip, ch), ip |-> ip, channel |-> ch])
                       ELSE @]
            /\ effects' = effects \cup {"test"}
                   \cup (IF test_rtsp_connection(t) THEN {"capture"} ELSE {})
    /\ UNCHANGED <<libVars, producer, actions, cameras, folders, pc, cur, execCount, cycle, crashed>>

\* do_action lines 181-193: the check of the capture results and the grouping.
do_action_results ==
    /\ pc = "capture"
    /\ w.k > NCombos
    /\ IF Len(w.captured_files) = 0
       THEN FailJob
       ELSE /\ w' = [w EXCEPT !.groups = ChannelGroups(w.channels, w.capture_info), !.g = 1]
            /\ pc' = "stitch"
    /\ UNCHANGED <<libVars, producer, actions, cameras, folders, cur, execCount, effects, cycle, crashed>>

\* Variant: a failed stitch is logged but does not change action_status.
stitch_failure_keeps_status ==
    /\ pc = "stitch"
    /\ w.g <= Len(w.groups)
    /\ \E stitched_ok \in BOOLEAN :
        LET ch == w.groups[w.g]
        IN  w' = [w EXCEPT
                !.g = @ + 1,
                !.stitch_calls = Append(@, [channel |-> ch, ok |-> stitched_ok,
                                            files |-> ChannelFiles(w.capture_info, ch)]),
                !.stitched_images = IF stitched_ok THEN @ \cup {ch} ELSE @]
    /\ effects' = effects \cup {"stitch"}
    /\ UNCHANGED <<libVars, producer, actions, cameras, folders, pc, cur, execCount, cycle, crashed>>

\* do_action lines 197-206: the stitch of one channel group.
do_action_stitch ==
    /\ pc = "stitch"
    /\ w.g <= Len(w.groups)
    /\ \E stitched_ok \in BOOLEAN :
        LET ch == w.groups[w.g]
        IN  w' = [w EXCEPT
                !.g = @ + 1,
                !.stitch_calls = Append(@, [channel |-> ch, ok |-> stitched_ok,
                                            files |-> ChannelFiles(w.capture_info, ch)]),
                !.stitched_images = IF stitched_ok THEN @ \cup {ch} ELSE @,
                !.action_status = IF stitched_ok THEN @ ELSE FAILED]
    /\ effects' = effects \cup {"stitch"}
    /\ UNCHANGED <<libVars, producer, actions, cameras, folders, pc, cur, execCount, cycle, crashed>>

\* Variant: the metadata record is written only when no stitch has failed.
metadata_only_when_done ==
    /\ pc = "stitch"
    /\ w.g > Len(w.groups)
    /\ IF w.action_status = DONE
       THEN /\ w' = [w EXCEPT !.metadata =
                       [written |-> TRUE,
                        total_cameras |-> Len(w.cam_infos),
                        channels |-> w.channels,
                        successful_captures |-> Len(w.captured_files),
                        captures |-> w.capture_info,
                        stitched_images |-> w.stitched_images]]
            /\ effects' = effects \cup {"metadata"}
       ELSE UNCHANGED <<w, effects>>
    /\ pc' = "finally"
    /\ UNCHANGED <<libVars, producer, actions, cameras, folders, cur, execCount, cycle, crashed>>

\* do_action lines 209-220: the metadata record capture_info.json.
do_action_metadata ==
    /\ pc = "stitch"
    /\ w.g > Len(w.groups)
    /\ w' = [w EXCEPT !.metadata =
                [written |-> TRUE,
                 total_cameras |-> Len(w.cam_infos),
                 channels |-> w.channels,
                 successful_captures |-> Len(w.captured_files),
                 captures |-> w.capture_info,
                 stitched_images |-> w.stitched_images]]
    /\ effects' = effects \cup {"metadata"}
    /\ pc' = "finally"
    /\ UNCHANGED <<libVars, producer, actions, cameras, folders, cur, execCount, cycle, crashed>>

\* Variant: the status follows the last test, a success resets it to done.
check_last_test_wins ==
    /\ pc = "check"
    /\ w.k <= NCombos
    /\ \E t \in ProcOutcomes :
        w' = [w EXCEPT
                !.k = @ + 1,
                !.tests = Append(@, test_rtsp_connection(t)),
                !.action_status = IF test_rtsp_connection(t) THEN DONE ELSE FAILED]
    /\ effects' = effects \cup {"test"}
    /\ UNCHANGED <<libVars, producer, actions, cameras, folders, pc, cur, execCount, cycle, crashed>>

\* do_action lines 233-239: one connectivity test of check_config.
do_action_check ==
    /\ pc = "check"
    /\ w.k <= NCombos
    /\ \E t \in ProcOutcomes :
        w' = [w EXCEPT
                !.k = @ + 1,
                !.tests = Append(@, test_rtsp_connection(t)),
                !.action_status = IF test_rtsp_connection(t) THEN @ ELSE FAILED]
    /\ effects' = effects \cup {"test"}
    /\ UNCHANGED <<libVars, producer, actions, cameras, folders, pc, cur, execCount, cycle, crashed>>

\* check_config: the loops of lines 228-239 are over.
do_action_check_end ==
    /\ pc = "check"
    /\ w.k > NCombos
    /\ pc' = "finally"
    /\ UNCHANGED <<libVars, producer, actions, cameras, folders, cur, w, execCount, effects, cycle, crashed>>

\* do_action lines 248-258: the finally block, the update succeeds.
do_action_finally_write ==
    /\ pc = "finally"
    /\ actions' = WriteFinalStatus(actions, cur, w.action_status)
    /\ cycle' = [cycle EXCEPT !.writes = @ \cup {j \in JobIds : actions'[j] # actions[j]}]
    /\ pc' = "sleep"
    /\ UNCHANGED <<libVars, producer, cameras, folders, cur, w, execCount, effects, crashed>>

\* do_action lines 251-258 when update_by_id raises: the exception leaves
\* do_action and reaches do_worker's "except Exception" (lines 112-115).
do_action_finally_raise ==
    /\ pc = "finally"
    /\ pc' = "poll"
    /\ cur' = 0
    /\ w' = InitLocals
    /\ effects' = {}
    /\ UNCHANGED <<libVars, producer, actions, cameras, folders, execCount, cycle, crashed>>

\* do_worker line 108 and 115: time.sleep(3), return True.
do_worker_sleep ==
    /\ pc = "sleep"
    /\ pc' = "poll"
    /\ cur' = 0
    /\ w' = InitLocals
    /\ effects' = {}
    /\ UNCHANGED <<libVars, producer, actions, cameras, folders, execCount, cycle, crashed>>

(***************************************************************************)
(* Environment                                                             *)
(***************************************************************************)
\* The external producer inserts a pending row.
Insert ==
    /\ \E j \in 1..producer.rows, kind \in producer.kinds :
        /\ actions[j].status = ABSENT
        /\ \A i \in 1..(j - 1) : actions[i].status # ABSENT
        /\ actions' = [actions EXCEPT ![j] = [status |-> PENDING, kind |-> kind]]
    /\ UNCHANGED <<libVars, producer, cameras, folders, pc, cur, w, execCount, effects, cycle, crashed>>

\* The worker process dies (kill, power loss) at any step.
Crash ==
    /\ pc # "exited"
    /\ pc' = "exited"
    /\ crashed' = IF pc \in WorkPcs THEN crashed \cup {cur} ELSE crashed
    /\ cur' = 0
    /\ w' = InitLocals
    /\ effects' = {}
    /\ cycle' = [NewCycle EXCEPT !.cameras = cameras]
    /\ UNCHANGED <<libVars, producer, actions, cameras, folders, execCount>>

\* The worker process is started (main.py lines 64-67, 260-262).
Start ==
    /\ pc = "exited"
    /\ pc' = "poll"
    /\ UNCHANGED <<libVars, producer, actions, cameras, folders, cur, w, execCount, effects, cycle, crashed>>

Worker ==
    \/ do_worker_poll
    \/ do_worker_claim
    \/ do_worker_parse
    \/ do_action_validate
    \/ do_action_dispatch
    \/ do_action_capture
    \/ do_action_results
    \/ do_action_stitch
    \/ do_action_metadata
    \/ do_action_check
    \/ do_action_check_end
    \/ do_action_finally_write
    \/ do_worker_sleep

Next ==
    \/ Worker
    \/ do_action_finally_raise
    \/ Insert
    \/ Crash
    \/ Start

Spec == Init /\ [][Next]_vars

\* The worker runs without being killed, the store accepts the final status
\* update, and the worker's next step is eventually taken.
LiveNext ==
    \/ Worker
    \/ Insert
    \/ Start

LiveSpec == Init /\ [][LiveNext]_vars /\ WF_vars(Worker)

\* The worker with a producer of capture-and-stitch jobs.
InitStitch ==
    /\ producer = [rows |-> MaxRichJobs, kinds |-> StitchKinds]
    /\ actions = [j \in JobIds |-> [status |-> ABSENT, kind |-> CHOOSE x \in JobKinds : TRUE]]
    /\ cameras = IpsA
    /\ folders = {}
    /\ pc = "poll"
    /\ cur = 0
    /\ w = InitLocals
    /\ execCount = [j \in JobIds |-> 0]
    /\ effects = {}
    /\ cycle = NewCycle
    /\ crashed = {}
    /\ ups = IdleUpdate
    /\ wk = IdleWorkers
    /\ cf = IdleCapture
    /\ vf = IdleValidate
    /\ tw = IdleTimelapse
    /\ vid = IdleVideo
    /\ sch = IdleRun
    /\ bk = IdleBackups

SpecStitch == InitStitch /\ [][LiveNext]_vars

(***************************************************************************)
(* capture_frame_robust, one call, stepped one strategy invocation at a    *)
(* time.  cf.log is the history of the invocations: the method, the pass   *)
(* (retry_count) and what the loop made of it.                             *)
(***************************************************************************)
\* Variant: the entry check uses ">" and allows one pass more.
cfr_entry_one_more_pass ==
    /\ cf.pc = "entry"
    /\ IF cf.retry_count > MAX_RETRIES
       THEN cf' = [cf EXCEPT !.pc = "done", !.result = "false"]
       ELSE cf' = [cf EXCEPT !.pc = "methods", !.i = 1]
    /\ UNCHANGED exceptCapture

\* capture_frame_robust lines 104-106: the check at the entry of each call.
cfr_entry ==
    /\ cf.pc = "entry"
    /\ IF cf.retry_count >= MAX_RETRIES
       THEN cf' = [cf EXCEPT !.pc = "done", !.result = "false"]
       ELSE cf' = [cf EXCEPT !.pc = "methods", !.i = 1]
    /\ UNCHANGED exceptCapture

\* Variant: an exception of a strategy ends the call.
cfr_method_raise_aborts ==
    /\ cf.pc = "methods"
    /\ cf.i <= Len(methods)
    /\ \E o \in ProcOutcomes, f \in Frames :
        LET file == IF StrategyReturn(o) = "true" THEN f ELSE cf.file
            r == AttemptResult(o, file)
            entry == [method |-> methods[cf.i], pass |-> cf.retry_count, result |-> r]
        IN  IF r = "accepted"
            THEN cf' = [cf EXCEPT !.pc = "done", !.result = "true", !.file = file,
                                  !.log = Append(@, entry)]
            ELSE IF r = "raised"
            THEN cf' = [cf EXCEPT !.pc = "done", !.result = "false", !.log = Append(@, entry)]
            ELSE cf' = [cf EXCEPT !.i = @ + 1, !.file = file, !.log = Append(@, entry)]
    /\ UNCHANGED exceptCapture

\* capture_frame_robust lines 115-126: one iteration of the loop.
cfr_method ==
    /\ cf.pc = "methods"
    /\ cf.i <= Len(methods)
    /\ \E o \in ProcOutcomes, f \in Frames :
        LET file == IF StrategyReturn(o) = "true" THEN f ELSE cf.file
            r == AttemptResult(o, file)
            entry == [method |-> methods[cf.i], pass |-> cf.retry_count, result |-> r]
        IN  IF r = "accepted"
            THEN cf' = [cf EXCEPT !.pc = "done", !.result = "true", !.file = file,
                                  !.log = Append(@, entry)]
            ELSE cf' = [cf EXCEPT !.i = @ + 1, !.file = file, !.log = Append(@, entry)]
    /\ UNCHANGED exceptCapture

\* capture_frame_robust lines 129-134: all methods failed.
cfr_retry ==
    /\ cf.pc = "methods"
    /\ cf.i > Len(methods)
    /\ IF cf.retry_count < MAX_RETRIES
       THEN \* time.sleep(5), then the recursive call with retry_count + 1
            cf' = [cf EXCEPT !.pc = "entry", !.retry_count = @ + 1, !.sleeps = @ + 1]
       ELSE cf' = [cf EXCEPT !.pc = "done", !.result = "false"]
    /\ UNCHANGED exceptCapture

\* The worker process is not running and its table is empty.
WorkerAtRest ==
    /\ producer = [rows |-> MaxJobs, kinds |-> BasicKinds]
    /\ actions = [j \in JobIds |-> [status |-> ABSENT, kind |-> CHOOSE x \in JobKinds : TRUE]]
    /\ cameras = IpsA
    /\ folders = {}
    /\ pc = "exited"
    /\ cur = 0
    /\ w = InitLocals
    /\ execCount = [j \in JobIds |-> 0]
    /\ effects = {}
    /\ cycle = NewCycle
    /\ crashed = {}

InitCapture ==
    /\ WorkerAtRest
    /\ ups = IdleUpdate
    /\ wk = IdleWorkers
    /\ sch = IdleRun
    /\ bk = IdleBackups
    /\ cf = [IdleCapture EXCEPT !.pc = "entry"]
    /\ vf = IdleValidate
    /\ tw = IdleTimelapse
    /\ vid = IdleVideo

NextCapture ==
    \/ cfr_entry
    \/ cfr_method
    \/ cfr_retry

SpecCapture == InitCapture /\ [][NextCapture]_vars

\* The call keeps running: ffmpeg is run with a timeout, so every strategy
\* invocation ends, and the sleep ends.
LiveSpecCapture == InitCapture /\ [][NextCapture]_vars /\ WF_vars(NextCapture)

(***************************************************************************)
(* TimelapseWorker.capture_best_frame                                      *)
(***************************************************************************)
\* The session folder after frame_count frames were stored.
Stored(n) == [k \in FrameIdx |-> IF k <= n THEN Content("stored", k, 1) ELSE NoContent]

\* The locals of capture_best_frame at its entry (lines 113-115) and the
\* frame state the burst starts from.
EnterBurst(t) ==
    [t EXCEPT !.pc = "cbf_disk", !.i = 0, !.temp_frames = <<>>,
              !.best_frame = -1, !.best_score = -1, !.result = "none",
              !.burst = @ + 1,
              !.before = [frame_count |-> t.frame_count, frames |-> t.frames,
                          backups |-> t.backups]]

InitBurst ==
    /\ WorkerAtRest
    /\ ups = IdleUpdate
    /\ wk = IdleWorkers
    /\ sch = IdleRun
    /\ bk = IdleBackups
    /\ cf = IdleCapture
    /\ vf = IdleValidate
    /\ vid = IdleVideo
    /\ \E n \in {0, MaxFrames} :
        tw = EnterBurst([IdleTimelapse EXCEPT !.frame_count = n, !.frames = Stored(n),
                                             !.backups = Stored(n)])

\* capture_best_frame lines 109-111: the disk space check.
cbf_check_disk ==
    /\ tw.pc = "cbf_disk"
    /\ \E enough \in BOOLEAN :
        tw' = IF enough THEN [tw EXCEPT !.pc = "cbf_attempts"]
              ELSE [tw EXCEPT !.pc = "done", !.result = "false"]
    /\ UNCHANGED exceptTimelapse

\* capture_best_frame lines 119-133: one attempt of the burst.  The file
\* capture_frame_robust leaves at temp_{i}.jpg has the sharpness s.
cbf_attempt ==
    /\ tw.pc = "cbf_attempts"
    /\ tw.i < BurstSize
    /\ \E captured \in BOOLEAN, s \in Scores :
        LET c == Content("captured", tw.burst * BurstSize + tw.i, s)
        IN  tw' = IF captured
                  THEN [tw EXCEPT
                          !.temps[tw.i] = c,
                          !.temp_frames = Append(@, [path |-> tw.i, sharpness |-> s]),
                          !.best_score = IF Sharper(s, @) THEN s ELSE @,
                          !.best_frame = IF Sharper(s, tw.best_score) THEN tw.i ELSE @,
                          !.i = @ + 1]
                  ELSE [tw EXCEPT !.i = @ + 1]
    /\ UNCHANGED exceptTimelapse

\* capture_best_frame lines 136 and 163-165: is there a frame to save.
cbf_select ==
    /\ tw.pc = "cbf_attempts"
    /\ tw.i = BurstSize
    /\ tw' = IF tw.best_frame # -1 /\ tw.best_score > 0
             THEN [tw EXCEPT !.pc = "cbf_copy_final"]
             ELSE [tw EXCEPT !.pc = "done", !.result = "false"]
    /\ UNCHANGED exceptTimelapse

\* capture_best_frame lines 138-139: shutil.copy2 to frame_{frame_count+1};
\* when it raises (lines 167-169) the destination is untouched or partial.
cbf_copy_final ==
    /\ tw.pc = "cbf_copy_final"
    /\ \E copied \in BOOLEAN, residue \in BOOLEAN :
        tw' = IF copied
              THEN [tw EXCEPT !.frames[tw.frame_count + 1] = tw.temps[tw.best_frame],
                              !.pc = "cbf_copy_backup"]
              ELSE [tw EXCEPT !.frames[tw.frame_count + 1] = IF residue THEN Partial ELSE @,
                              !.pc = "done", !.result = "false"]
    /\ UNCHANGED exceptTimelapse

\* capture_best_frame lines 142-146: shutil.copy2 to backup_{frame_count+1},
\* then last_good_frame and frame_count.
cbf_copy_backup ==
    /\ tw.pc = "cbf_copy_backup"
    /\ \E copied \in BOOLEAN, residue \in BOOLEAN :
        tw' = IF copied
              THEN [tw EXCEPT !.backups[tw.frame_count + 1] = tw.temps[tw.best_frame],
                              !.frame_count = @ + 1,
                              !.pc = "cbf_finish"]
              ELSE [tw EXCEPT !.backups[tw.frame_count + 1] = IF residue THEN Partial ELSE @,
                              !.pc = "done", !.result = "false"]
    /\ UNCHANGED exceptTimelapse

\* capture_best_frame lines 150-162: the temp files are removed (an error
\* of os.remove is logged), old backups are cleaned every 50 frames.
cbf_finish ==
    /\ tw.pc = "cbf_finish"
    /\ \E removed \in BOOLEAN :
        tw' = [tw EXCEPT
                 !.temps = [k \in DOMAIN @ |->
                              IF removed /\ \E n \in 1..Len(tw.temp_frames) :
                                                tw.temp_frames[n].path = k
                              THEN NoContent ELSE @[k]],
                 !.backups = IF tw.frame_count % BackupCleanupEvery = 0
                             THEN cleanup_old_backups(@) ELSE @,
                 !.pc = "done", !.result = "true"]
    /\ UNCHANGED exceptTimelapse

\* TimelapseWorker.run lines 311-332: the next burst of the session.
run_next_burst ==
    /\ tw.pc = "done"
    /\ tw.burst < MaxBursts
    /\ tw.frame_count <= MaxFrames
    /\ tw' = EnterBurst(tw)
    /\ UNCHANGED exceptTimelapse

NextBurst ==
    \/ cbf_check_disk
    \/ cbf_attempt
    \/ cbf_select
    \/ cbf_copy_final
    \/ cbf_copy_backup
    \/ cbf_finish
    \/ run_next_burst

SpecBurst == InitBurst /\ [][NextBurst]_vars

(***************************************************************************)
(* TimelapseWorker.create_video and common.renumber_frames_for_video       *)
(***************************************************************************)
\* The locals of create_video at its entry, and the folders as the call
\* finds them.
EnterVideo(v) ==
    [v EXCEPT !.pc = "cv_begin", !.calls = @ + 1,
              !.frame_files = <<>>, !.i = 0, !.to_move = {}, !.listed = 0,
              !.first_seen = FALSE, !.rn = "none", !.enc = "none",
              !.encoder_calls = 0, !.result = "none",
              !.before = [frames |-> v.frames, scratch |-> v.scratch,
                          videos |-> v.videos]]

InitVideo ==
    /\ WorkerAtRest
    /\ ups = IdleUpdate
    /\ wk = IdleWorkers
    /\ sch = IdleRun
    /\ bk = IdleBackups
    /\ cf = IdleCapture
    /\ vf = IdleValidate
    /\ tw = IdleTimelapse
    /\ \E shape \in SessionShapes, name \in VideoNames, old \in {NoContent, OldVideo} :
        vid = EnterVideo([IdleVideo EXCEPT !.name = name, !.session = 1,
                                          !.frames = SessionFrames(1, shape),
                                          !.videos[name] = old])

\* Variant: a failing return leaves the processing flag as it is.
ReturnFalseKeepsFlag(v) == [v EXCEPT !.pc = "done", !.result = "false"]

\* create_video returns False: update_processing_status(False), return.
ReturnFalse(v) == [v EXCEPT !.pc = "done", !.processing = FALSE, !.result = "false"]

\* renumber_frames_for_video returns False to create_video.
RenumberFailed(v) ==
    [v EXCEPT !.pc = "cv_renumbered", !.rn = "false", !.last_rn = EmptyFolder]

\* Variant: one frame is enough to start the assembly.
cv_begin_one_frame ==
    /\ vid.pc = "cv_begin"
    /\ LET n == Len(get_session_frames(vid.frames))
           v == [vid EXCEPT !.processing = TRUE, !.listed = n]
       IN vid' = IF n < 1 THEN ReturnFalse(v)
                 ELSE [v EXCEPT !.pc = "rn_list"]
    /\ UNCHANGED exceptVideo

\* create_video lines 175-185: the processing flag and the frame count.
cv_begin ==
    /\ vid.pc = "cv_begin"
    /\ LET n == Len(get_session_frames(vid.frames))
           v == [vid EXCEPT !.processing = TRUE, !.listed = n]
       IN vid' = IF n < MinVideoFrames THEN ReturnFalse(v)
                 ELSE [v EXCEPT !.pc = "rn_list"]
    /\ UNCHANGED exceptVideo

\* renumber_frames_for_video lines 111-121: the listing and the scratch
\* folder (os.makedirs may raise).
rn_list ==
    /\ vid.pc = "rn_list"
    /\ \E made \in BOOLEAN :
        LET files == get_session_frames(vid.frames)
        IN vid' = IF files = <<>> \/ ~made THEN RenumberFailed(vid)
                  ELSE [vid EXCEPT !.pc = "rn_copy", !.frame_files = files, !.i = 1]
    /\ UNCHANGED exceptVideo

\* renumber_frames_for_video lines 124-127: the i-th frame is copied to
\* frame_{i} of the scratch folder; a copy that raises leaves its
\* destination untouched or partial.
rn_copy ==
    /\ vid.pc = "rn_copy"
    /\ \E copied \in BOOLEAN, residue \in BOOLEAN :
        vid' = IF copied
               THEN [vid EXCEPT !.scratch[vid.i] = vid.frames[vid.frame_files[vid.i]],
                                !.i = IF vid.i = Len(vid.frame_files) THEN 1 ELSE @ + 1,
                                !.pc = IF vid.i = Len(vid.frame_files)
                                       THEN "rn_remove" ELSE @]
               ELSE RenumberFailed([vid EXCEPT !.scratch[vid.i] =
                                       IF residue THEN Partial ELSE @])
    /\ UNCHANGED exceptVideo

\* renumber_frames_for_video lines 130-132: the i-th original is removed;
\* after the last one os.listdir lists the scratch folder.
rn_remove ==
    /\ vid.pc = "rn_remove"
    /\ \E removed \in BOOLEAN :
        vid' = IF removed
               THEN [vid EXCEPT !.frames[vid.frame_files[vid.i]] = NoContent,
                                !.i = @ + 1,
                                !.to_move = IF vid.i = Len(vid.frame_files)
                                            THEN Present(vid.scratch) ELSE @,
                                !.pc = IF vid.i = Len(vid.frame_files)
                                       THEN "rn_move" ELSE @]
               ELSE RenumberFailed(vid)
    /\ UNCHANGED exceptVideo

\* renumber_frames_for_video lines 135-138: one of the listed scratch files
\* is moved to the session folder (os.listdir gives them in any order).
rn_move ==
    /\ vid.pc = "rn_move"
    /\ vid.to_move # {}
    /\ \E k \in vid.to_move, moved \in BOOLEAN :
        vid' = IF moved
               THEN [vid EXCEPT !.frames[k] = vid.scratch[k],
                                !.scratch[k] = NoContent,
                                !.to_move = @ \ {k}]
               ELSE RenumberFailed(vid)
    /\ UNCHANGED exceptVideo

\* renumber_frames_for_video lines 140-147: os.rmdir, return True (or the
\* except branch when it raises).
rn_rmdir ==
    /\ vid.pc = "rn_move"
    /\ vid.to_move = {}
    /\ \E removed \in BOOLEAN :
        vid' = IF removed THEN [vid EXCEPT !.pc = "cv_renumbered", !.rn = "true",
                                            !.last_rn = vid.frames]
               ELSE RenumberFailed(vid)
    /\ UNCHANGED exceptVideo

\* create_video lines 188-191: "if not renumber_frames_for_video()".
cv_renumbered ==
    /\ vid.pc = "cv_renumbered"
    /\ vid' = IF vid.rn = "true" THEN [vid EXCEPT !.pc = "cv_first"]
              ELSE ReturnFalse(vid)
    /\ UNCHANGED exceptVideo

\* Frame 1 is deleted out of band between the renumbering and the check.
out_of_band_delete ==
    /\ vid.pc = "cv_first"
    /\ vid.frames[1] # NoContent
    /\ vid' = [vid EXCEPT !.frames[1] = NoContent]
    /\ UNCHANGED exceptVideo

\* create_video lines 196-204: frame_000001.jpg must exist.
cv_first ==
    /\ vid.pc = "cv_first"
    /\ vid' = IF vid.frames[1] # NoContent
              THEN [vid EXCEPT !.pc = "cv_encode", !.first_seen = TRUE]
              ELSE ReturnFalse(vid)
    /\ UNCHANGED exceptVideo

\* create_video lines 206-226: ffmpeg writes to temp_output.  A run that
\* fails or is killed at the timeout leaves its output untouched or
\* partial; a timeout or an error raises into lines 246-250.
cv_encode ==
    /\ vid.pc = "cv_encode"
    /\ \E o \in ProcOutcomes, wrote \in BOOLEAN :
        LET tmp == temp_output(vid.name)
            v == [vid EXCEPT
                    !.encoder_calls = @ + 1,
                    !.enc = o,
                    !.videos[tmp] =
                        IF o = "rc0" THEN Encoded(vid.session)
                        ELSE IF o \in {"rc_nonzero", "timeout"} /\ wrote THEN Partial
                        ELSE @]
        IN vid' = IF o \in {"timeout", "error"} THEN ReturnFalse(v)
                  ELSE [v EXCEPT !.pc = "cv_finish"]
    /\ UNCHANGED exceptVideo

\* create_video lines 228-244: on success the temp file is moved to the
\* output path, otherwise it is removed if it exists; shutil.move and
\* os.remove may raise into lines 246-250.
cv_finish ==
    /\ vid.pc = "cv_finish"
    /\ \E done \in BOOLEAN :
        LET tmp == temp_output(vid.name)
        IN vid' =
            IF ~done THEN ReturnFalse(vid)
            ELSE IF vid.enc = "rc0"
            THEN [vid EXCEPT !.videos = [@ EXCEPT ![tmp] = NoContent,
                                                  ![vid.name] = vid.videos[tmp]],
                             !.pc = "done", !.processing = FALSE, !.result = "true"]
            ELSE ReturnFalse([vid EXCEPT !.videos[tmp] = NoContent])
    /\ UNCHANGED exceptVideo

\* TimelapseWorker.run: a later finalize_video calls create_video again,
\* on the session folder as it is or, after start_new_session, on the
\* frames of a new session.
cv_call_again ==
    /\ vid.pc = "done"
    /\ vid.calls < MaxCalls
    /\ \E fresh \in BOOLEAN, shape \in SessionShapes :
        vid' = IF fresh
               THEN EnterVideo([vid EXCEPT !.session = @ + 1,
                                           !.frames = SessionFrames(vid.session + 1, shape)])
               ELSE EnterVideo(vid)
    /\ UNCHANGED exceptVideo

NextVideo ==
    \/ cv_begin
    \/ rn_list
    \/ rn_copy
    \/ rn_remove
    \/ rn_move
    \/ rn_rmdir
    \/ cv_renumbered
    \/ out_of_band_delete
    \/ cv_first
    \/ cv_encode
    \/ cv_finish
    \/ cv_call_again

SpecVideo == InitVideo /\ [][NextVideo]_vars

(***************************************************************************)
(* validate_frame, applied to one file.                                    *)
(***************************************************************************)
\* The attributes of the files validate_frame is applied to: values below,
\* at and above each threshold.
FileSizes == {0, MinFileSize - 1, MinFileSize, MinFileSize + 1, 50000}
Dimensions == {MinDimension - 1, MinDimension, 1080}
Brightnesses ==
    {0, MinBrightness - 1, MinBrightness, MinBrightness + 1, 128,
     MaxBrightness - 1, MaxBrightness, MaxBrightness + 1, 255}

FrameInputs ==
    {NoFile} \cup
    {Frame(TRUE, s, r, wd, h, b) :
        s \in FileSizes, r \in BOOLEAN, wd \in Dimensions, h \in Dimensions,
        b \in Brightnesses}

InitValidate ==
    /\ WorkerAtRest
    /\ ups = IdleUpdate
    /\ wk = IdleWorkers
    /\ sch = IdleRun
    /\ bk = IdleBackups
    /\ cf = IdleCapture
    /\ tw = IdleTimelapse
    /\ vid = IdleVideo
    /\ vf \in {[pc |-> "call", frame |-> f, result |-> FALSE] : f \in FrameInputs}

\* validate_frame(frame_path) returns.
validate_frame_call ==
    /\ vf.pc = "call"
    /\ vf' = [vf EXCEPT !.pc = "done", !.result = validate_frame(vf.frame)]
    /\ UNCHANGED exceptValidate

NextValidate == validate_frame_call

SpecValidate == InitValidate /\ [][NextValidate]_vars

(***************************************************************************)
(* TimelapseWorker.run with the shutdown signal handler.  The handler runs *)
(* on the main thread: the interrupted code is suspended until the handler *)
(* returns, while child processes (ffmpeg) keep running.                   *)
(***************************************************************************)
\* The thread that executes and its position.
Active == IF sch.hpc # "none" THEN "handler" ELSE "main"
Pos == IF sch.hpc # "none" THEN sch.hpc ELSE sch.pc

\* The main loop is at p and no handler is running.
MainAt(p) == sch.hpc = "none" /\ sch.pc = p

\* The executing thread moves to p.
Goto(s, p) == IF sch.hpc # "none" THEN [s EXCEPT !.hpc = p] ELSE [s EXCEPT !.pc = p]

\* finalize_video returns: to the interrupted code, to line 338 or to
\* line 354.
Return(s) ==
    IF sch.hpc # "none" THEN [s EXCEPT !.hpc = "none"]
    ELSE [s EXCEPT !.pc = IF s.ret = "tick" THEN "stop_done" ELSE "stopped"]

\* What a tick read and what it decided.
Tick(processing, disk, outcome) ==
    [status |-> sch.control.status, processing |-> processing, disk |-> disk,
     outcome |-> outcome]

\* The process starts with the control file as the control surface and an
\* earlier process left it.
InitRun ==
    /\ WorkerAtRest
    /\ ups = IdleUpdate
    /\ wk = IdleWorkers
    /\ cf = IdleCapture
    /\ vf = IdleValidate
    /\ tw = IdleTimelapse
    /\ vid = IdleVideo
    /\ bk = IdleBackups
    /\ \E status \in {"start", "stop"}, processing \in BOOLEAN :
        sch = [IdleRun EXCEPT !.control = [status |-> status, processing |-> processing]]

\* run lines 278-281: the connection test at startup.
run_startup ==
    /\ MainAt("startup")
    /\ \E connected \in BOOLEAN :
        sch' = [sch EXCEPT !.pc = IF connected THEN "loop" ELSE "stopped"]
    /\ UNCHANGED exceptRun

\* Variant: the processing flag is not consulted before a session starts.
run_gate_ignores_processing ==
    /\ MainAt("loop")
    /\ sch.running /\ sch.control.status = "start" /\ ~sch.recording
    /\ \E enough \in BOOLEAN :
        sch' = IF ~enough
               THEN [sch EXCEPT !.tick = Tick(sch.control.processing, "low", "refused")]
               ELSE [sch EXCEPT
                       !.recording = TRUE,
                       !.current_session = sch.sessions + 1,
                       !.sessions = @ + 1,
                       !.frame_count = 0,
                       !.removed = Cardinality(Present(sch.frames)),
                       !.frames = cleanup_session_frames(@),
                       !.error_count = 0,
                       !.pc = "cbf",
                       !.tick = Tick(sch.control.processing, "enough", "started")]
    /\ UNCHANGED exceptRun

\* run lines 283-308, status "start" while not recording: the processing
\* gate, the disk gate, then recording, current_session, start_new_session
\* (lines 96-104) and error_count.
run_gate ==
    /\ MainAt("loop")
    /\ sch.running /\ sch.control.status = "start" /\ ~sch.recording
    /\ \E enough \in BOOLEAN :
        sch' = IF sch.control.processing
               THEN [sch EXCEPT !.tick = Tick(TRUE, "unchecked", "refused")]
               ELSE IF ~enough
               THEN [sch EXCEPT !.tick = Tick(FALSE, "low", "refused")]
               ELSE [sch EXCEPT
                       !.recording = TRUE,
                       !.current_session = sch.sessions + 1,
                       !.sessions = @ + 1,
                       !.frame_count = 0,
                       !.removed = Cardinality(Present(sch.frames)),
                       !.frames = cleanup_session_frames(@),
                       !.error_count = 0,
                       !.pc = "cbf",
                       !.tick = Tick(FALSE, "enough", "started")]
    /\ UNCHANGED exceptRun

\* run lines 283-291 and 310, status "start" while recording.
run_tick ==
    /\ MainAt("loop")
    /\ sch.running /\ sch.control.status = "start" /\ sch.recording
    /\ sch' = [sch EXCEPT !.pc = "cbf",
                          !.tick = Tick(sch.control.processing, "unchecked", "capture")]
    /\ UNCHANGED exceptRun

\* run lines 334-337, another status while recording: finalize_video.
run_stop ==
    /\ MainAt("loop")
    /\ sch.running /\ sch.control.status # "start" /\ sch.recording
    /\ sch' = [sch EXCEPT !.pc = "fv_enter", !.ret = "tick",
                          !.tick = Tick(sch.control.processing, "unchecked", "stop")]
    /\ UNCHANGED exceptRun

\* run lines 334-341, another status while not recording: sleep.
run_idle ==
    /\ MainAt("loop")
    /\ sch.running /\ sch.control.status # "start" /\ ~sch.recording
    /\ sch' = [sch EXCEPT !.tick = Tick(sch.control.processing, "unchecked", "idle")]
    /\ UNCHANGED exceptRun

\* run line 338-341: after finalize_video, recording = False and sleep.
run_stop_done ==
    /\ MainAt("stop_done")
    /\ sch' = [sch EXCEPT !.recording = FALSE, !.pc = "loop"]
    /\ UNCHANGED exceptRun

\* run line 283: "while self.running" ends the loop.
run_exit_loop ==
    /\ MainAt("loop")
    /\ ~sch.running
    /\ sch' = [sch EXCEPT !.pc = "exit"]
    /\ UNCHANGED exceptRun

\* run lines 350-354: the cleanup on exit.
run_exit ==
    /\ MainAt("exit")
    /\ sch' = IF sch.recording THEN [sch EXCEPT !.pc = "fv_enter", !.ret = "exit"]
              ELSE [sch EXCEPT !.pc = "stopped"]
    /\ UNCHANGED exceptRun

\* Variant: the burst starts whatever check_disk_space returned.
run_burst_begin_ignores_disk ==
    /\ MainAt("cbf")
    /\ \E enough \in BOOLEAN :
        sch' = [sch EXCEPT !.capturing = TRUE, !.pc = "cbf_capturing",
                           !.tick.disk = IF enough THEN "enough" ELSE "low",
                           !.overlap = @ \cup (IF sch.encoders > 0
                                               THEN {"capture_during_encode"} ELSE {})]
    /\ UNCHANGED exceptRun

\* capture_best_frame lines 109-122: the disk check, then the first capture
\* child is started.
run_burst_begin ==
    /\ MainAt("cbf")
    /\ \E enough \in BOOLEAN :
        sch' = IF enough
               THEN [sch EXCEPT !.capturing = TRUE, !.pc = "cbf_capturing",
                                !.tick.disk = "enough",
                                !.overlap = @ \cup (IF sch.encoders > 0
                                                    THEN {"capture_during_encode"} ELSE {})]
               ELSE [sch EXCEPT !.result = "false", !.pc = "count", !.tick.disk = "low"]
    /\ UNCHANGED exceptRun

\* capture_best_frame lines 119-136 and 163-165: the captures end; there is
\* a best frame with a positive score or there is none.
run_burst_capture ==
    /\ MainAt("cbf_capturing")
    /\ \E good \in BOOLEAN :
        sch' = IF good /\ sch.frame_count < MaxFrames
               THEN [sch EXCEPT !.capturing = FALSE, !.pc = "cbf_copy_final"]
               ELSE [sch EXCEPT !.capturing = FALSE, !.result = "false", !.pc = "count"]
    /\ UNCHANGED exceptRun

\* capture_best_frame lines 138-139: the copy to frame_{frame_count+1}.
run_burst_store ==
    /\ MainAt("cbf_copy_final")
    /\ sch' = [sch EXCEPT !.frames[sch.frame_count + 1] = Accepted(sch.accepted + 1),
                          !.accepted = @ + 1,
                          !.overlap = @ \cup (IF sch.encoders > 0
                                              THEN {"write_during_encode"} ELSE {}),
                          !.pc = "cbf_copy_backup"]
    /\ UNCHANGED exceptRun

\* capture_best_frame lines 142-162: the copy to backup_{frame_count+1},
\* frame_count, the periodic cleanup_old_backups, return True.
run_burst_backup ==
    /\ MainAt("cbf_copy_backup")
    /\ LET b == [sch.backups EXCEPT ![sch.frame_count + 1] = Accepted(sch.accepted)]
       IN sch' = [sch EXCEPT
                    !.backups = IF (sch.frame_count + 1) % BackupCleanupEvery = 0
                                THEN cleanup_old_backups(b) ELSE b,
                    !.frame_count = @ + 1,
                    !.result = "true",
                    !.pc = "count"]
    /\ UNCHANGED exceptRun

\* Variant: the recovery starts above the threshold.
run_count_above_threshold ==
    /\ MainAt("count")
    /\ sch' = IF sch.result = "true"
              THEN [sch EXCEPT !.error_count = 0, !.pc = "loop"]
              ELSE [sch EXCEPT !.error_count = @ + 1,
                               !.pc = IF sch.error_count + 1 > ErrorThreshold
                                      THEN "recover" ELSE "loop"]
    /\ UNCHANGED exceptRun

\* run lines 311-318 and 326-332: error_count after the burst, the sleep.
run_count ==
    /\ MainAt("count")
    /\ sch' = IF sch.result = "true"
              THEN [sch EXCEPT !.error_count = 0, !.pc = "loop"]
              ELSE [sch EXCEPT !.error_count = @ + 1,
                               !.pc = IF sch.error_count + 1 >= ErrorThreshold
                                      THEN "recover" ELSE "loop"]
    /\ UNCHANGED exceptRun

\* run lines 319-332: the pause, the connection test, error_count = 0.
run_recover ==
    /\ MainAt("recover")
    /\ sch' = [sch EXCEPT !.error_count = 0, !.pc = "loop"]
    /\ UNCHANGED exceptRun

\* signal_handler lines 78-83: running = False and, when recording, a call
\* of finalize_video on top of the interrupted code.
signal_handler ==
    /\ sch.hpc = "none"
    /\ sch.pc # "stopped"
    /\ sch.signals < MaxSignals
    /\ sch' = [sch EXCEPT !.signals = @ + 1, !.running = FALSE,
                          !.hpc = IF sch.recording THEN "fv_enter" ELSE "none"]
    /\ UNCHANGED exceptRun

\* finalize_video line 254: "if self.current_session and self.frame_count > 0".
finalize_video ==
    /\ Pos = "fv_enter"
    /\ sch' = IF sch.current_session # 0 /\ sch.frame_count > 0
              THEN Goto(sch, "cv_flag") ELSE Return(sch)
    /\ UNCHANGED exceptRun

\* create_video lines 175-185: the processing flag, the listing of the
\* session frames, the frame count.
create_video_list ==
    /\ Pos = "cv_flag"
    /\ LET n == Len(get_session_frames(sch.frames))
           s == [sch EXCEPT !.attempted = @ \cup Stamps(sch.frames)]
       IN sch' = IF n < MinVideoFrames
                 THEN Goto([s EXCEPT !.control.processing = FALSE, !.ok[Active] = FALSE],
                           "fv_result")
                 ELSE Goto([s EXCEPT !.control.processing = TRUE], "cv_renumber")
    /\ UNCHANGED exceptRun

\* create_video lines 188-191: renumber_frames_for_video rewrites the
\* session folder or fails.
create_video_renumber ==
    /\ Pos = "cv_renumber"
    /\ \E renumbered \in BOOLEAN :
        sch' = IF renumbered
               THEN Goto([sch EXCEPT !.frames = Renumbered(@),
                                     !.overlap = @ \cup (IF sch.encoders > 0
                                                         THEN {"write_during_encode"}
                                                         ELSE {})],
                         "cv_spawn")
               ELSE Goto([sch EXCEPT !.control.processing = FALSE, !.ok[Active] = FALSE],
                         "fv_result")
    /\ UNCHANGED exceptRun

\* create_video lines 196-226: without frame_000001.jpg the call fails;
\* otherwise subprocess.run starts the encoder on the session folder.
create_video_spawn ==
    /\ Pos = "cv_spawn"
    /\ sch' = IF 1 \notin Present(sch.frames)
              THEN Goto([sch EXCEPT !.control.processing = FALSE, !.ok[Active] = FALSE],
                        "fv_result")
              ELSE Goto([sch EXCEPT
                      !.encoders = @ + 1,
                      !.overlap = @ \cup (IF sch.encoders > 0 THEN {"two_encodes"} ELSE {})
                                    \cup (IF sch.capturing THEN {"capture_during_encode"}
                                          ELSE {})],
                   "cv_wait")
    /\ UNCHANGED exceptRun

\* create_video lines 226-250: the encoder ends (or is killed at the
\* timeout), the processing flag is cleared, create_video returns.
create_video_wait ==
    /\ Pos = "cv_wait"
    /\ \E o \in {"rc0", "rc_nonzero", "timeout"} :
        sch' = Goto([sch EXCEPT !.encoders = @ - 1,
                                !.control.processing = FALSE,
                                !.ok[Active] = (o = "rc0")],
                    "fv_result")
    /\ UNCHANGED exceptRun

\* Variant: the session frames are removed whatever create_video returned.
finalize_video_result_always_cleans ==
    /\ Pos = "fv_result"
    /\ sch' = Goto([sch EXCEPT !.removed = Cardinality(Present(sch.frames)),
                               !.frames = cleanup_session_frames(@),
                               !.control.processing = FALSE],
                   "fv_reset")
    /\ UNCHANGED exceptRun

\* finalize_video lines 258-265: cleanup_session_frames after a success,
\* update_processing_status(False) after a failure.
finalize_video_result ==
    /\ Pos = "fv_result"
    /\ sch' = IF sch.ok[Active]
              THEN Goto([sch EXCEPT !.removed = Cardinality(Present(sch.frames)),
                                    !.frames = cleanup_session_frames(@),
                                    !.overlap = @ \cup (IF sch.encoders > 0
                                                        THEN {"write_during_encode"}
                                                        ELSE {})],
                        "fv_reset")
              ELSE Goto([sch EXCEPT !.control.processing = FALSE], "fv_reset")
    /\ UNCHANGED exceptRun

\* finalize_video lines 267-272: cleanup_old_backups, then the session is
\* forgotten.
finalize_video_reset ==
    /\ Pos = "fv_reset"
    /\ sch' = Return([sch EXCEPT !.backups = cleanup_old_backups(@),
                                 !.current_session = 0,
                                 !.frame_count = 0])
    /\ UNCHANGED exceptRun

\* The control surface writes the status of the control file.
set_status ==
    /\ sch.pc # "stopped"
    /\ \E status \in {"start", "stop"} :
        /\ status # sch.control.status
        /\ status = "start" => sch.sessions < MaxSessions
        /\ sch' = [sch EXCEPT !.control.status = status]
    /\ UNCHANGED exceptRun

NextRun ==
    \/ run_startup
    \/ run_gate
    \/ run_tick
    \/ run_stop
    \/ run_idle
    \/ run_stop_done
    \/ run_exit_loop
    \/ run_exit
    \/ run_burst_begin
    \/ run_burst_capture
    \/ run_burst_store
    \/ run_burst_backup
    \/ run_count
    \/ run_recover
    \/ signal_handler
    \/ finalize_video
    \/ create_video_list
    \/ create_video_renumber
    \/ create_video_spawn
    \/ create_video_wait
    \/ finalize_video_result
    \/ finalize_video_reset
    \/ set_status

SpecRun == InitRun /\ [][NextRun]_vars

(***************************************************************************)
(* FrameHelper.cleanup_old_backups, one call, stepped one os.remove at a   *)
(* time.  Names are backup_%06d.jpg, so the order of the names is the      *)
(* order of the indices.                                                   *)
(***************************************************************************)
\* The call finds the files backup_{lo} .. backup_{hi}: a folder that was
\* never pruned (lo = 1) or one whose first 50 files were pruned earlier.
InitPrune ==
    /\ WorkerAtRest
    /\ ups = IdleUpdate
    /\ wk = IdleWorkers
    /\ cf = IdleCapture
    /\ vf = IdleValidate
    /\ tw = IdleTimelapse
    /\ vid = IdleVideo
    /\ sch = IdleRun
    /\ \E lo \in {1, BackupCleanupEvery + 1}, hi \in 0..MaxBackupIdx :
        /\ lo <= hi + 1
        /\ bk = [IdleBackups EXCEPT !.pc = "call",
                                    !.dir = BackupRange(lo, hi),
                                    !.before = BackupRange(lo, hi)]

\* cleanup_old_backups lines 22-24: the sorted listing and the slice.
prune_list ==
    /\ bk.pc = "call"
    /\ LET backup_files == sorted_backups(bk.dir)
       IN bk' = IF Len(backup_files) > KeptBackups
                THEN [bk EXCEPT !.pc = "removing", !.i = 1,
                                !.to_remove = files_to_remove(backup_files)]
                ELSE [bk EXCEPT !.pc = "done"]
    /\ UNCHANGED exceptBackups

\* cleanup_old_backups lines 25-27: os.remove of the next file of the slice.
prune_remove ==
    /\ bk.pc = "removing"
    /\ bk' = [bk EXCEPT !.dir[bk.to_remove[bk.i]] = NoContent,
                        !.purged = @ \cup {bk.dir[bk.to_remove[bk.i]].id},
                        !.i = @ + 1,
                        !.pc = IF bk.i = Len(bk.to_remove) THEN "done" ELSE @]
    /\ UNCHANGED exceptBackups

NextPrune ==
    \/ prune_list
    \/ prune_remove

SpecPrune == InitPrune /\ [][NextPrune]_vars

(***************************************************************************)
(* The backups TimelapseWorker writes over a sequence of sessions.         *)
(***************************************************************************)
\* The stamps of the backups a prune removes.
Purged(dir) == Stamps(dir) \ Stamps(cleanup_old_backups(dir))

\* The process has started; no session yet.
InitBackups ==
    /\ WorkerAtRest
    /\ ups = IdleUpdate
    /\ wk = IdleWorkers
    /\ cf = IdleCapture
    /\ vf = IdleValidate
    /\ tw = IdleTimelapse
    /\ vid = IdleVideo
    /\ sch = IdleRun
    /\ bk = [IdleBackups EXCEPT !.pc = "idle_session", !.dir = NoBackups, !.before = NoBackups]

\* run lines 304-308 with start_new_session (lines 96-104): a session
\* starts with frame_count = 0.
start_session ==
    /\ bk.pc = "idle_session"
    /\ bk.sessions < MaxSessions
    /\ bk' = [bk EXCEPT !.pc = "session", !.sessions = @ + 1, !.frame_count = 0]
    /\ UNCHANGED exceptBackups

\* capture_best_frame lines 141-160: an accepted frame is copied to
\* backup_{frame_count+1}; every 50 frames cleanup_old_backups runs.
append_backup ==
    /\ bk.pc = "session"
    /\ bk.accepted < MaxAccepts
    /\ bk.frame_count < MaxBackupIdx
    /\ LET k == bk.frame_count + 1
           b == [bk.dir EXCEPT ![k] = Accepted(bk.accepted + 1)]
           prune == k % BackupCleanupEvery = 0
       IN bk' = [bk EXCEPT
                   !.dir = IF prune THEN cleanup_old_backups(b) ELSE b,
                   !.overwritten = @ \cup (IF bk.dir[k] # NoContent THEN {bk.dir[k].id}
                                           ELSE {}),
                   !.purged = @ \cup (IF prune THEN Purged(b) ELSE {}),
                   !.frame_count = k,
                   !.accepted = @ + 1]
    /\ UNCHANGED exceptBackups

\* run lines 334-338 with finalize_video (lines 254, 267-271): with
\* frame_count > 0 the session ends with cleanup_old_backups and
\* frame_count = 0.
end_session ==
    /\ bk.pc = "session"
    /\ bk' = IF bk.frame_count > 0
             THEN [bk EXCEPT !.pc = "idle_session",
                             !.dir = cleanup_old_backups(@),
                             !.purged = @ \cup Purged(bk.dir),
                             !.frame_count = 0]
             ELSE [bk EXCEPT !.pc = "idle_session"]
    /\ UNCHANGED exceptBackups

\* The process is killed during a session and started again: __init__
\* (line 27) sets frame_count = 0 and the backup folder is as it was.
kill_and_restart ==
    /\ bk.pc = "session"
    /\ bk' = [bk EXCEPT !.pc = "idle_session", !.frame_count = 0]
    /\ UNCHANGED exceptBackups

NextBackups ==
    \/ start_session
    \/ append_backup
    \/ end_session
    \/ kill_and_restart

SpecBackups == InitBackups /\ [][NextBackups]_vars

(***************************************************************************)
(* Claims about the action-queue worker.                                   *)
(***************************************************************************)
Terminal(j) == actions[j].status \in {DONE, FAILED}

Command(j) == actions[j].kind.command

\* do_action has returned for the current row and its status is written.
Returned == pc = "sleep" /\ cur # 0

\* C1: once a row is marked in_progress its status eventually becomes done or
\* failed, whatever the command handler does (failed captures, a raised
\* exception, an unknown command): do_action writes the status on every exit.
C1_ClaimedEndsTerminal ==
    \A j \in JobIds : (actions[j].status = IN_PROGRESS) ~> Terminal(j)

\* A capture job over 3 cameras whose third capture raised after 2 succeeded
\* has its terminal status written.
C1_Witness ==
    /\ Returned
    /\ Terminal(cur)
    /\ Len(w.cam_infos) = 3
    /\ Len(w.attempts) = 3
    /\ w.attempts[1].ok /\ w.attempts[2].ok /\ ~w.attempts[3].ok

\* C2: a row's status only changes pending -> in_progress, in_progress -> done
\* or in_progress -> failed (and absent -> pending when the producer inserts it).
C2_OnlyFsmTransitions ==
    [][\A j \in JobIds :
          actions'[j].status # actions[j].status =>
             <<actions[j].status, actions'[j].status>> \in
                 { <<ABSENT, PENDING>>, <<PENDING, IN_PROGRESS>>,
                   <<IN_PROGRESS, DONE>>, <<IN_PROGRESS, FAILED>> }]_vars

\* One row is done, another is failed, and the worker is polling again.
C2_Witness ==
    /\ pc = "poll"
    /\ \E i, j \in JobIds : actions[i].status = DONE /\ actions[j].status = FAILED

\* C3: do_action is called at most once for a row, and the row the worker is
\* about to claim is pending: a done or failed row is never selected again.
C3_NoRetry ==
    /\ \A j \in JobIds : execCount[j] <= 1
    /\ pc = "claim" => actions[cur].status = PENDING
    /\ \A j \in JobIds : Terminal(j) => cur # j \/ pc = "sleep"

\* A row failed, and afterwards the worker handled another row to its end.
C3_Witness ==
    \E i, j \in JobIds :
        /\ i # j
        /\ actions[i].status = FAILED /\ execCount[i] = 1
        /\ Returned /\ cur = j /\ Terminal(j) /\ execCount[j] = 1

\* C4: while the payload is parsed and do_action runs, the row's persisted
\* status is in_progress; a row the process died on stays in_progress and
\* do_action is not called for it again after the restart.
C4_InProgressBeforeWork ==
    /\ pc \in WorkPcs => actions[cur].status = IN_PROGRESS
    /\ \A j \in crashed : actions[j].status = IN_PROGRESS /\ execCount[j] <= 1

\* The process died while working on a row, was started again and has
\* selected another row.
C4_Witness ==
    /\ crashed # {}
    /\ pc = "claim"
    /\ cur \notin crashed

\* C5: one call of do_worker moves at most one row to in_progress and calls
\* do_action at most once; when it found no pending row it wrote no row.
C5_OneJobPerCycle ==
    /\ Cardinality(cycle.claimed) <= 1
    /\ cycle.handlers <= 1
    /\ ~cycle.pending => cycle.claimed = {} /\ cycle.writes = {} /\ cycle.handlers = 0

\* Two rows were pending, the cycle claimed one and the other is still pending.
C5_Witness ==
    /\ pc = "parse"
    /\ Cardinality(cycle.claimed) = 1
    /\ PendingRows(actions) # {}

\* do_action has returned from the capture_and_stitch branch.
ReturnedFromCapture ==
    /\ Returned
    /\ Command(cur) = CAPTURE_AND_STITCHING
    /\ w.cam_infos # <<>>

\* The stitch of some channel group failed.
SomeStitchFailed == \E i \in 1..Len(w.stitch_calls) : ~w.stitch_calls[i].ok

\* The number of captures that succeeded.
Successes ==
    LET Ok(a) == a.ok IN SelectSeq(w.attempts, Ok)

C7_MetadataOfPartialCapture ==
    (/\ pc \in {"finally", "sleep"}
     /\ cur # 0
     /\ Command(cur) = CAPTURE_AND_STITCHING
     /\ Len(Successes) >= 1
     /\ Len(Successes) < Len(w.attempts))
    => /\ w.metadata.written
       /\ w.metadata.successful_captures = Len(Successes)
       /\ Len(w.metadata.captures) = Len(Successes)
       /\ \A i \in 1..Len(Successes) :
             /\ w.metadata.captures[i].ip = Successes[i].ip
             /\ w.metadata.captures[i].channel = Successes[i].channel
             /\ w.metadata.captures[i].path = FramePath(Successes[i].ip, Successes[i].channel)
       /\ w.metadata.stitched_images =
             {w.stitch_calls[i].channel : i \in {n \in 1..Len(w.stitch_calls) : w.stitch_calls[n].ok}}

\* 2 cameras, channel [1], one capture failed, the stitch failed: the record
\* is written with successful_captures = 1.
C7_Witness ==
    /\ Returned
    /\ Command(cur) = CAPTURE_AND_STITCHING
    /\ Len(w.cam_infos) = 2 /\ w.channels = <<1>>
    /\ SomeStitchFailed
    /\ w.metadata.written
    /\ w.metadata.successful_captures = 1

\* C8: a check_config job that reached the tests is done exactly when the
\* test of every camera and channel succeeded, and failed otherwise.
C8_CheckConfigDoneIffAllPass ==
    (Returned /\ Command(cur) = CHECK_CONFIG /\ w.cam_infos # <<>>)
    => /\ Terminal(cur)
       /\ Len(w.tests) = NCombos
       /\ actions[cur].status = DONE <=> (\A i \in 1..Len(w.tests) : w.tests[i])

\* The first test failed, the second succeeded, and the job is failed.
C8_Witness ==
    /\ Returned
    /\ Command(cur) = CHECK_CONFIG
    /\ w.tests = <<FALSE, TRUE>>
    /\ actions[cur].status = FAILED

\* The row has an unknown command, or its payload selects no camera.
NoSelection(j) ==
    \/ Command(j) \notin {CHECK_CONFIG, CAPTURE_AND_STITCHING}
    \/ ~str2dict(actions[j].kind.additions).has_mac

\* C9: a job with an unknown command or without mac_addresses ends failed,
\* and while it is handled no directory is created, no test, capture or
\* stitch is invoked, no camera row changes and no other row is written.
C9_NoSideEffects ==
    (cur # 0 /\ pc \in WorkPcs \cup {"sleep"} /\ NoSelection(cur))
    => /\ effects = {}
       /\ cur \notin folders
       /\ cameras = cycle.cameras
       /\ cycle.writes \subseteq {cur}
       /\ w.metadata = NoMeta
       /\ pc = "sleep" => actions[cur].status = FAILED

\* An unknown command with a camera that exists has ended failed.
C9_Witness ==
    /\ Returned
    /\ Command(cur) = UNKNOWN_COMMAND
    /\ w.cam_infos # <<>>
    /\ actions[cur].status = FAILED

(***************************************************************************)
(* Claims about capture_frame_robust.                                      *)
(***************************************************************************)
\* C10: the strategies are invoked in the order TCP, UDP, alternate codec in
\* every pass, each only after all earlier invocations failed, raised or
\* left a file that failed validation, and the call returns success at the
\* first invocation that is accepted, invoking nothing after it.
C10_StrategyOrder ==
    /\ \A n \in 1..Len(cf.log) :
          /\ cf.log[n].method =
                <<"capture_with_tcp_transport", "capture_with_udp_transport",
                  "capture_with_different_codec">>[((n - 1) % 3) + 1]
          /\ cf.log[n].pass = (n - 1) \div 3
          /\ n < Len(cf.log) => cf.log[n].result # "accepted"
    /\ cf.result = "true" <=>
          (cf.log # <<>> /\ cf.log[Len(cf.log)].result = "accepted")
    /\ cf.result = "true" => cf.pc = "done" /\ validate_frame(cf.file)
    /\ cf.result = "none" => \A n \in 1..Len(cf.log) : cf.log[n].result # "accepted"

\* TCP failed, UDP left a file that failed validation, the alternate codec
\* was accepted.
C10_Witness ==
    /\ cf.result = "true"
    /\ Len(cf.log) = 3
    /\ cf.log[1].result = "failed"
    /\ cf.log[2].result = "invalid"
    /\ cf.log[3].result = "accepted"

\* C11: capture_frame_robust terminates; it runs at most MAX_RETRIES passes
\* of the three strategies, every pass after the first is preceded by the
\* delay, and it returns failure exactly when all strategies of all
\* MAX_RETRIES passes failed, raised or failed validation.
C11_BoundedRetries ==
    /\ <>(cf.pc = "done")
    /\ [](/\ Len(cf.log) <= Len(methods) * MAX_RETRIES
          /\ \A n \in 1..Len(cf.log) :
                cf.log[n].pass < MAX_RETRIES /\ cf.log[n].pass <= cf.sleeps
          /\ cf.pc = "done" => cf.result \in {"true", "false"}
          /\ cf.result = "false" <=>
                (/\ cf.pc = "done"
                 /\ Len(cf.log) = Len(methods) * MAX_RETRIES
                 /\ \A n \in 1..Len(cf.log) : cf.log[n].result # "accepted"))

\* All three passes failed in three different ways and the call returned
\* failure.
C11_Witness ==
    /\ cf.pc = "done"
    /\ cf.result = "false"
    /\ Len(cf.log) = 9
    /\ cf.log[7].result = "failed"
    /\ cf.log[8].result = "raised"
    /\ cf.log[9].result = "invalid"

(***************************************************************************)
(* Claims about validate_frame.                                            *)
(***************************************************************************)
\* C12: validate_frame accepts a frame only if the file exists, can be
\* read, has at least the minimum size and dimensions, and its mean
\* brightness is strictly inside (5, 250): exactly 5 and exactly 250 are
\* rejected.
C12_AcceptsOnlyStrictlyInside ==
    (vf.pc = "done" /\ vf.result) =>
        /\ vf.frame.exists
        /\ vf.frame.readable
        /\ vf.frame.size >= 1000
        /\ vf.frame.width >= 100 /\ vf.frame.height >= 100
        /\ vf.frame.brightness > 5 /\ vf.frame.brightness < 250

\* A readable 1080 x 1080 file of 50000 bytes with mean brightness exactly 5
\* has been accepted.
C12_Witness ==
    /\ vf.pc = "done"
    /\ vf.result
    /\ vf.frame = Frame(TRUE, 50000, TRUE, 1080, 1080, 5)

(***************************************************************************)
(* Claims about TimelapseWorker.capture_best_frame.                        *)
(***************************************************************************)
\* The attempts of the burst are over.
BurstAttemptsOver ==
    \/ tw.pc \in {"cbf_copy_final", "cbf_copy_backup", "cbf_finish"}
    \/ tw.pc = "cbf_attempts" /\ tw.i = 3
    \/ tw.pc = "done" /\ tw.i = 3

\* The candidate of the burst with the maximal score, the earliest of them.
EarliestSharpest ==
    LET c == tw.temp_frames
        n == CHOOSE n \in 1..Len(c) :
                /\ \A m \in 1..Len(c) : c[m].sharpness <= c[n].sharpness
                /\ \A m \in 1..(n - 1) : c[m].sharpness < c[n].sharpness
    IN c[n]

\* C13: after a burst of 3 attempts with at least one captured candidate,
\* the selected candidate is the one with the maximal sharpness, the
\* earliest among equals, and a frame the burst stores is a copy of it.
C13_SelectsEarliestSharpest ==
    (BurstAttemptsOver /\ tw.temp_frames # <<>>) =>
        /\ tw.best_frame = EarliestSharpest.path
        /\ tw.best_score = EarliestSharpest.sharpness
        /\ tw.pc \in {"cbf_copy_backup", "cbf_finish"} =>
              /\ tw.frames[tw.before.frame_count + 1].kind = "captured"
              /\ tw.frames[tw.before.frame_count + 1].id =
                    tw.burst * 3 + EarliestSharpest.path
              /\ tw.frames[tw.before.frame_count + 1].sharpness =
                    EarliestSharpest.sharpness

\* The first attempt failed, the second and third candidates both have the
\* maximal score 2, and the second one was stored.
C13_Witness ==
    /\ tw.pc = "done" /\ tw.result = "true"
    /\ tw.temp_frames = <<[path |-> 1, sharpness |-> 2], [path |-> 2, sharpness |-> 2]>>
    /\ tw.frames[tw.before.frame_count + 1].id = tw.burst * 3 + 1

\* C14: when a burst fails (no candidate scores above zero, not enough disk
\* space, or an error inside capture_best_frame) the frame counter, the set
\* of frame files of the session and the set of backup files are what they
\* were before the burst.
C14_FailedBurstKeepsFrameState ==
    (tw.pc = "done" /\ tw.result = "false") =>
        /\ tw.frame_count = tw.before.frame_count
        /\ Present(tw.frames) = Present(tw.before.frames)
        /\ Present(tw.backups) = Present(tw.before.backups)

\* The best candidate was copied to frame_{frame_count+1}, the copy to the
\* backup folder raised, and the burst returned failure: the session has a
\* frame file it did not have before and frame_count is unchanged.
C14_Witness ==
    /\ tw.pc = "done" /\ tw.result = "false"
    /\ tw.frame_count = tw.before.frame_count
    /\ tw.before.frames[tw.frame_count + 1] = NoContent
    /\ tw.frames[tw.frame_count + 1].kind = "captured"

(***************************************************************************)
(* Claims about renumber_frames_for_video and create_video.                *)
(***************************************************************************)
\* renumber_frames_for_video has just returned True, or False.
RenumberOk == vid.pc = "cv_renumbered" /\ vid.rn = "true"
RenumberFailure == vid.pc = "cv_renumbered" /\ vid.rn = "false"

\* The session folder holds exactly the names 1..n.
Contiguous(dir) == Present(dir) = 1..Cardinality(Present(dir))

\* C15: a successful renumbering of a session named 1..N, and a successful
\* renumbering of the session a successful renumbering has just left, leaves
\* the same file names with the same contents.
C15_RenumberIdempotent ==
    (RenumberOk /\ (Contiguous(vid.before.frames) \/ vid.before.frames = vid.last_rn))
        => vid.frames = vid.before.frames

\* Session 2 was named 1, 2 when it was renumbered successfully, and has
\* three frames afterwards.
C15_Witness ==
    /\ RenumberOk
    /\ Present(vid.before.frames) = {1, 2}
    /\ Present(vid.frames) = {1, 2, 3}

\* C16: a successful renumbering of N frames with any gaps leaves the names
\* 1..N, the frame at index k having the content of the k-th frame of the
\* original index order.
C16_RenumberClosesGaps ==
    RenumberOk =>
        LET old == get_session_frames(vid.before.frames)
        IN /\ Present(vid.frames) = 1..Len(old)
           /\ \A k \in 1..Len(old) : vid.frames[k] = vid.before.frames[old[k]]

\* Session 2 had the frames 2, 3; the renumbering succeeded and the folder
\* holds a frame of session 1 at index 3.
C16_Witness ==
    /\ RenumberOk
    /\ Present(vid.before.frames) = {2, 3}
    /\ vid.frames[1] = vid.before.frames[2]
    /\ vid.frames[2] = vid.before.frames[3]
    /\ vid.frames[3].kind = "frame" /\ vid.frames[3].id[1] = 1

\* C17: when the renumbering fails the frames of the session folder are the
\* same files with the same contents as before the call, and the encoder is
\* not invoked.
C17_RenumberFailureKeepsSession ==
    /\ RenumberFailure => vid.frames = vid.before.frames
    /\ (vid.pc = "done" /\ vid.rn = "false") =>
          vid.frames = vid.before.frames /\ vid.encoder_calls = 0

\* The frames 1, 3, 4 were copied to the scratch folder, frame 1 was
\* removed, the removal of frame 3 raised: the session holds 3 and 4 only.
C17_Witness ==
    /\ RenumberFailure
    /\ Present(vid.before.frames) = {1, 3, 4}
    /\ Present(vid.frames) = {3, 4}
    /\ Present(vid.scratch) = {1, 2, 3}

\* C18: for every session file name, the file at the final output path is
\* written or changed only after the encoder reported success; before that,
\* and after a failed or timed-out encode, it is what it was before the call.
C18_PublishOnlyAfterSuccess ==
    vid.videos[vid.name] # vid.before.videos[vid.name] => vid.enc = "rc0"

\* The session is named output.mkv, the encoder was killed at the timeout
\* and the final path, which held an older video, holds a partial file.
C18_Witness ==
    /\ vid.pc = "done" /\ vid.result = "false"
    /\ vid.enc = "timeout"
    /\ vid.before.videos[vid.name] = OldVideo
    /\ vid.videos[vid.name] = Partial

\* C19: when create_video returns failure after the encoder was started
\* (non-zero exit, timeout, error while moving the result) the temporary
\* output file does not exist.
C19_TempRemovedOnFailure ==
    (vid.pc = "done" /\ vid.result = "false" /\ vid.encoder_calls > 0)
        => vid.videos[temp_output(vid.name)] = NoContent

\* The session is named output.mp4, the encoder was killed at the timeout
\* and its partial output is at output_tmp.mp4 when create_video has
\* returned False.
C19_Witness ==
    /\ vid.pc = "done" /\ vid.result = "false"
    /\ vid.name = <<"output", ".mp4">>
    /\ vid.enc = "timeout"
    /\ vid.videos[<<"output", "_tmp.mp4">>] = Partial

\* C20: the encoder is invoked only when at least 2 frames were listed, the
\* renumbering succeeded and frame 1 was found; with fewer than 2 frames or
\* with frame 1 absent create_video returns failure, the encoder is not
\* invoked and the video folder is unchanged.
C20_EncoderPreconditions ==
    /\ vid.encoder_calls > 0 => vid.listed >= 2 /\ vid.rn = "true" /\ vid.first_seen
    /\ vid.pc = "cv_encode" => vid.listed >= 2 /\ vid.rn = "true" /\ vid.first_seen
    /\ (vid.pc = "done" /\ (vid.listed < 2 \/ (vid.rn = "true" /\ ~vid.first_seen)))
          => /\ vid.result = "false"
             /\ vid.encoder_calls = 0
             /\ vid.videos = vid.before.videos

\* Three frames were renumbered, frame 1 was then missing, and create_video
\* returned failure.
C20_Witness ==
    /\ vid.pc = "done" /\ vid.result = "false"
    /\ vid.listed = 3
    /\ vid.rn = "true" /\ ~vid.first_seen
    /\ vid.encoder_calls = 0

(***************************************************************************)
(* Claims about the processing flag and the scheduler.                     *)
(***************************************************************************)
\* The positions of create_video after update_processing_status(True) and
\* before its return.
AssemblyPcs ==
    {"rn_list", "rn_copy", "rn_remove", "rn_move", "cv_renumbered", "cv_first",
     "cv_encode", "cv_finish"}

C22_StartGate ==
    [][/\ (~sch.recording /\ sch'.recording) =>
            /\ MainAt("loop") /\ sch.running
            /\ sch.control.status = "start"
            /\ ~sch.control.processing
            /\ sch'.tick.disk = "enough"
       /\ (/\ MainAt("loop") /\ sch.running /\ ~sch.recording
           /\ sch.control.status = "start"
           /\ sch'.tick # sch.tick
           /\ sch.control.processing \/ sch'.tick.disk = "low") =>
            /\ ~sch'.recording
            /\ sch'.pc = "loop"
            /\ sch'.sessions = sch.sessions
            /\ sch'.current_session = sch.current_session
            /\ sch'.frames = sch.frames
            /\ sch'.frame_count = sch.frame_count]_vars

\* The disk gate refused a start while the frames of the previous session,
\* kept after a failed assembly, are still in the session folder.
C22_Witness ==
    /\ MainAt("loop")
    /\ ~sch.recording
    /\ sch.tick.outcome = "refused"
    /\ sch.tick.disk = "low"
    /\ Present(sch.frames) # {}

\* C23: at most one encoder runs on the session folder at any time, and no
\* capture and no write to the session frames happens while an encoder
\* runs, whatever the moment the shutdown signal is delivered.
C23_NoOverlap ==
    /\ sch.encoders <= 1
    /\ sch.overlap = {}
    /\ ~(sch.capturing /\ sch.encoders > 0)

\* The signal arrived while the encoder of a stop-triggered finalize_video
\* was running; the handler's finalize_video started a second encoder.
C23_Witness ==
    /\ sch.encoders = 2
    /\ sch.pc = "cv_wait" /\ sch.hpc = "cv_wait"
    /\ "two_encodes" \in sch.overlap

\* C24: when the process has exited or the scheduler is idle again, every
\* frame accepted so far was in the session folder at the listing of some
\* call of create_video.
C24_EveryFrameAttempted ==
    (sch.pc = "stopped" \/ (MainAt("loop") /\ ~sch.recording)) =>
        \A k \in 1..sch.accepted : k \in sch.attempted

\* The process has exited and the session folder holds an accepted frame
\* that no call of create_video listed.
C24_Witness ==
    /\ sch.pc = "stopped"
    /\ sch.signals > 0
    /\ Stamps(sch.frames) \ sch.attempted # {}

\* C26: cleanup_session_frames leaves no frame file in the session folder
\* and leaves the backup folder as it is; it runs when a session starts and
\* in finalize_video after create_video returned True, and finalize_video
\* keeps the frames after create_video returned False.
C26_ResetSession ==
    [][/\ (~sch.recording /\ sch'.recording) =>
            /\ Present(sch'.frames) = {}
            /\ sch'.removed = Cardinality(Present(sch.frames))
            /\ sch'.backups = sch.backups
       /\ (Pos = "fv_result" /\ Pos' = "fv_reset" /\ sch.ok[Active]) =>
            /\ Present(sch'.frames) = {}
            /\ sch'.removed = Cardinality(Present(sch.frames))
            /\ sch'.backups = sch.backups
       /\ (Pos = "fv_result" /\ Pos' = "fv_reset" /\ ~sch.ok[Active]) =>
            /\ sch'.frames = sch.frames
            /\ sch'.backups = sch.backups]_vars

\* The second session has just started: the frame its predecessor left
\* after a failed assembly was removed, the backups are still there.
C26_Witness ==
    /\ MainAt("cbf")
    /\ sch.sessions = 2
    /\ sch.tick.outcome = "started"
    /\ sch.removed > 0
    /\ Present(sch.frames) = {}
    /\ Present(sch.backups) # {}

\* C27: at the start of every tick error_count is between 0 and 4; a
\* successful burst sets it to 0, a failed burst adds one, the recovery
\* starts exactly when it reaches 5 and sets it to 0; nothing else changes
\* it but the start of a session, which sets it to 0.
C27_ErrorCounter ==
    /\ [](sch.pc = "loop" => sch.error_count \in 0..4)
    /\ [][/\ (MainAt("count") /\ sch'.pc # "count") =>
               /\ sch.result = "true" => sch'.error_count = 0 /\ sch'.pc = "loop"
               /\ sch.result # "true" =>
                     /\ sch'.error_count = sch.error_count + 1
                     /\ sch'.pc = "recover" <=> sch'.error_count = 5
          /\ (MainAt("recover") /\ sch'.pc # "recover") =>
               sch'.error_count = 0 /\ sch'.pc = "loop"
          /\ sch'.error_count # sch.error_count =>
               \/ MainAt("count") \/ MainAt("recover")
               \/ ~sch.recording /\ sch'.recording /\ sch'.error_count = 0]_vars

\* The fifth failed burst in a row: the recovery is about to run.
C27_Witness ==
    /\ MainAt("recover")
    /\ sch.error_count = 5
    /\ sch.recording

(***************************************************************************)
(* Claims about the backup folder.                                         *)
(***************************************************************************)
\* C25: a call of cleanup_old_backups on a folder of n backup files leaves
\* min(n, 100) of them, the 100 greatest in name order, with their content;
\* with n = 150 the 50 lowest names are removed, with n <= 100 nothing is.
C25_PruneKeepsLastHundred ==
    bk.pc = "done" =>
        LET had == Present(bk.before)
            left == Present(bk.dir)
            n == Cardinality(had)
        IN /\ Cardinality(left) = IF n < 100 THEN n ELSE 100
           /\ left \subseteq had
           /\ \A k \in left : bk.dir[k] = bk.before[k]
           /\ \A k \in left, j \in had \ left : j < k
           /\ n <= 100 => bk.dir = bk.before
           /\ n = 150 => Cardinality(had \ left) = 50
           /\ bk.dir = cleanup_old_backups(bk.before)

\* 150 backups backup_1 .. backup_150 were found and backup_51 ..
\* backup_150 are left.
C25_Witness ==
    /\ bk.pc = "done"
    /\ Present(bk.before) = 1..150
    /\ Present(bk.dir) = 51..150
    /\ bk.i = 51

\* C29: no backup is overwritten by the backup of another accepted frame:
\* the backup of every accepted frame is in the backup folder until a
\* prune removes it, and after the first frame of a later session the
\* backup index is above the indices the earlier sessions used.
C29_BackupIndexIndependent ==
    /\ bk.overwritten = {}
    /\ \A s \in 1..bk.accepted : s \in Stamps(bk.dir) \cup bk.purged
    /\ (bk.pc = "session" /\ bk.frame_count > 0) =>
          \A k \in Present(bk.dir) : k <= bk.frame_count

\* The first frame of the second session was copied onto backup_1, the
\* backup of the first frame of the first session.
C29_Witness ==
    /\ bk.pc = "session"
    /\ bk.sessions = 2
    /\ bk.frame_count = 1
    /\ bk.dir[1] = Accepted(bk.accepted)
    /\ 1 \in bk.overwritten

\* C30: no backup removed by a prune was accepted later than a backup that
\* is still in the folder.
C30_PruneKeepsMostRecent ==
    \A p \in bk.purged, r \in Stamps(bk.dir) : p < r

\* 101 frames in the first session, one in the second: the prune at the end
\* of the second session removed backup_1, the backup of the last accepted
\* frame, and kept the backups of frames 2 to 101.
C30_Witness ==
    /\ bk.pc = "idle_session"
    /\ bk.sessions = 2
    /\ bk.accepted = 102
    /\ 102 \in bk.purged
    /\ Stamps(bk.dir) = 2..101

(***************************************************************************)
(* Claim about the top-level loop of the action-queue worker.              *)
(***************************************************************************)
\* C28: while the process is neither killed nor told to shut down, the
\* top-level loop does not end: every call of do_worker is followed by
\* another one.
C28_LoopEndsOnlyOnShutdown == pc # "exited"

\* The loop has ended after a poll cycle that found no valid camera
\* configuration, and a pending row is left in the queue.
C28_Witness ==
    /\ pc = "exited"
    /\ crashed = {}
    /\ PendingRows(actions) # {}
    /\ cycle.selected = 0

C32_IdleSessionDestroyed ==
    (MainAt("loop") /\ ~sch.recording /\ sch.sessions > 0)
        => (sch.current_session = 0 /\ sch.frame_count = 0)

\* A session in which no burst produced a frame was stopped; the loop is
\* idle and current_session still names the session.
C32_Witness ==
    /\ MainAt("loop")
    /\ sch.signals = 0
    /\ ~sch.recording
    /\ sch.sessions = 1
    /\ sch.accepted = 0
    /\ sch.current_session = 1
    /\ sch.tick.outcome = "idle"

C34_LowDiskPausesCapture ==
    [][/\ (/\ sch.hpc = "none" /\ sch'.hpc = "none"
           /\ sch'.signals = sch.signals
           /\ sch.running
           /\ sch'.tick.outcome \in {"started", "capture"} /\ sch'.tick.disk = "low")
            => /\ sch'.frames = sch.frames
               /\ sch'.backups = sch.backups
               /\ sch'.accepted = sch.accepted
               /\ ~sch'.capturing
               /\ sch'.recording
               /\ sch'.running
               /\ sch'.pc \in {"count", "recover", "loop"}
       /\ (MainAt("cbf") /\ sch'.hpc = "none" /\ sch'.pc # "cbf" /\ sch'.tick.disk = "enough")
            => (sch'.capturing /\ sch'.pc = "cbf_capturing")]_vars

\* One frame was accepted, then a tick found too little space: the loop
\* is back at its head, still recording, with that one frame.
C34_Witness ==
    /\ MainAt("loop")
    /\ sch.signals = 0
    /\ sch.tick.outcome = "capture" /\ sch.tick.disk = "low"
    /\ sch.recording /\ sch.running
    /\ sch.frame_count = 1
    /\ sch.error_count = 1

(***************************************************************************)
(* Claim about the order of captures and the stitch calls of one job.      *)
(***************************************************************************)
\* C35: in a capture_and_stitch job the captures are attempted one at a
\* time, camera by camera and, for each camera, channel by channel in the
\* order of the request; every stitch call is for a requested channel with
\* at least one successful capture and gets exactly the files captured for
\* that channel, in the order of their capture; no channel gets two calls,
\* and once the stitching is over every requested channel with a
\* successful capture has had its call.
C35_StitchPerChannel ==
    LET Paths(ch) ==
            LET Ok(a) == a.ok /\ a.channel = ch
                sel == SelectSeq(w.attempts, Ok)
            IN [i \in 1..Len(sel) |-> FramePath(sel[i].ip, sel[i].channel)]
        Calls(ch) == {c \in 1..Len(w.stitch_calls) : w.stitch_calls[c].channel = ch}
        Requested == {w.channels[i] : i \in 1..Len(w.channels)}
    IN  pc \in WorkPcs =>
          /\ \A k \in 1..Len(w.attempts) :
                /\ w.attempts[k].ip = cameras[ComboCam(k)]
                /\ w.attempts[k].channel = ComboChannel(k)
          /\ w.stitch_calls # <<>> => Len(w.attempts) = NCombos
          /\ \A c \in 1..Len(w.stitch_calls) :
                /\ w.stitch_calls[c].channel \in Requested
                /\ w.stitch_calls[c].files # <<>>
                /\ w.stitch_calls[c].files = Paths(w.stitch_calls[c].channel)
          /\ \A ch \in Requested : Cardinality(Calls(ch)) <= 1
          /\ w.metadata.written =>
                \A ch \in Requested : Paths(ch) # <<>> => Cardinality(Calls(ch)) = 1

\* Channels 2 and 1 of two cameras were requested; both captures of channel
\* 2 failed and both of channel 1 succeeded: one stitch call, for channel
\* 1, with the two files in camera order.
C35_Witness ==
    /\ pc = "finally"
    /\ w.channels = <<2, 1>>
    /\ Len(w.attempts) = 4
    /\ ~w.attempts[1].ok /\ w.attempts[2].ok /\ ~w.attempts[3].ok /\ w.attempts[4].ok
    /\ w.metadata.written
    /\ Len(w.stitch_calls) = 1
    /\ w.stitch_calls[1].channel = 1
    /\ w.stitch_calls[1].files = <<FramePath("ip1", 1), FramePath("ip2", 1)>>

(***************************************************************************)
(* Claim about the frames the encoder is given.                            *)
(***************************************************************************)
\* C36: after a successful renumbering, and when the encoder is started,
\* the session folder holds as many frames as before the call of
\* create_video and every one of them is a frame of the current session.
C36_OnlyFramesOfTheSession ==
    (RenumberOk \/ vid.pc = "cv_encode") =>
        /\ Cardinality(Present(vid.frames)) = Cardinality(Present(vid.before.frames))
        /\ \A k \in Present(vid.frames) :
              vid.frames[k].kind = "frame" /\ vid.frames[k].id[1] = vid.session

\* Session 2 has the frames 1, 2, all its own; the renumbering succeeded and
\* the encoder is about to read three frames, the third a frame of
\* session 1 that a failed renumbering had left in the scratch folder.
C36_Witness ==
    /\ vid.pc = "cv_encode"
    /\ vid.session = 2
    /\ Present(vid.before.frames) = {1, 2}
    /\ \A k \in {1, 2} : vid.before.frames[k].id[1] = 2
    /\ vid.before.scratch[3].kind = "frame"
    /\ Present(vid.frames) = {1, 2, 3}
    /\ vid.frames[3] = vid.before.scratch[3]
    /\ vid.frames[3].id[1] = 1

(***************************************************************************)
(* TimelapseWorker.update_processing_status and the control surface, both  *)
(* writing control.json.                                                   *)
(***************************************************************************)
\* The calls of update_processing_status and the writes of the control
\* surface in one run.
MaxUpdates == 2
MaxSurfaceWrites == 2

\* What control.json can hold.
ControlFiles == [status : {"start", "stop"}, processing : BOOLEAN]

\* The scheduler is running and is in no call of update_processing_status;
\* control.json is as the control surface and earlier calls left it.
InitUpdate ==
    /\ WorkerAtRest
    /\ cf = IdleCapture
    /\ vf = IdleValidate
    /\ tw = IdleTimelapse
    /\ vid = IdleVideo
    /\ sch = IdleRun
    /\ bk = IdleBackups
    /\ wk = IdleWorkers
    /\ \E f \in ControlFiles :
        ups = [IdleUpdate EXCEPT !.pc = "ready", !.file = f, !.surface = f.status]

\* update_processing_status line 85: the call, with its argument.
update_processing_status ==
    /\ ups.pc = "ready"
    /\ ups.calls < MaxUpdates
    /\ \E processing \in BOOLEAN :
        ups' = [ups EXCEPT !.pc = "read", !.processing = processing, !.calls = @ + 1]
    /\ UNCHANGED exceptUpdate

\* update_processing_status line 88 with read_status (common.py lines
\* 71-78): the whole file is read into the local dict; a read that fails
\* gives the default dict.
ups_read_status ==
    /\ ups.pc = "read"
    /\ \E ok \in BOOLEAN :
        ups' = [ups EXCEPT !.pc = "write",
                           !.status = IF ok THEN ups.file ELSE DefaultStatus]
    /\ UNCHANGED exceptUpdate

\* update_processing_status lines 89-92 with write_status (common.py lines
\* 62-68): the local dict, with the flag set, replaces the file; a write
\* that fails is logged and leaves the file.
ups_write_status ==
    /\ ups.pc = "write"
    /\ \E ok \in BOOLEAN :
        ups' = [ups EXCEPT !.pc = "ready",
                           !.status.processing = ups.processing,
                           !.file = IF ok THEN [ups.status EXCEPT !.processing = ups.processing]
                                    ELSE @]
    /\ UNCHANGED exceptUpdate

\* The control surface sets the status field of control.json.
control_surface_write ==
    /\ ups.pc # "idle"
    /\ ups.writes < MaxSurfaceWrites
    /\ \E s \in {"start", "stop"} :
        ups' = [ups EXCEPT !.file.status = s, !.surface = s, !.writes = @ + 1]
    /\ UNCHANGED exceptUpdate

NextUpdate ==
    \/ update_processing_status
    \/ ups_read_status
    \/ ups_write_status
    \/ control_surface_write

SpecUpdate == InitUpdate /\ [][NextUpdate]_vars

\* C37: the status field of control.json is always the one the control
\* surface wrote last, whatever update_processing_status does and however
\* its read and its write interleave with the writes of the control
\* surface.
C37_StatusFieldUntouched ==
    ups.pc # "idle" => ups.file.status = ups.surface

\* update_processing_status read the file with status start, the control
\* surface wrote stop, then the scheduler wrote its dict: the file says
\* start again.
C37_Witness ==
    /\ ups.pc = "ready"
    /\ ups.calls = 1
    /\ ups.writes = 1
    /\ ups.surface = "stop"
    /\ ups.status.status = "start"
    /\ ups.file.status = "start"
    /\ ups.file.processing = ups.processing

(***************************************************************************)
(* The scheduler with its own steps eventually taken.                      *)
(***************************************************************************)
\* The steps of TimelapseWorker.run and of what it calls; the control
\* surface and the signals are not among them.
Scheduler ==
    \/ run_startup
    \/ run_gate
    \/ run_tick
    \/ run_stop
    \/ run_idle
    \/ run_stop_done
    \/ run_exit_loop
    \/ run_exit
    \/ run_burst_begin
    \/ run_burst_capture
    \/ run_burst_store
    \/ run_burst_backup
    \/ run_count
    \/ run_recover
    \/ finalize_video
    \/ create_video_list
    \/ create_video_renumber
    \/ create_video_spawn
    \/ create_video_wait
    \/ finalize_video_result
    \/ finalize_video_reset

\* Every sleep of the loop ends and every child process ends or is killed
\* at its timeout, so the scheduler's next step is eventually taken.
LiveSpecRun == InitRun /\ [][NextRun]_vars /\ WF_vars(Scheduler)

\* C38: when the scheduler starts with the processing flag of control.json
\* left true by an earlier process, the flag does not stay true for ever
\* while the scheduler runs and the status stays start.
C38_ProcessingFlagRecovers ==
    (sch.pc = "startup" /\ sch.control.processing)
        ~> (~sch.control.processing \/ sch.control.status # "start" \/ sch.pc = "stopped")

\* The scheduler started with the flag true; the status is start and the
\* tick has refused to start a recording because of the flag.
C38_Witness ==
    /\ MainAt("loop")
    /\ sch.signals = 0
    /\ sch.sessions = 0
    /\ sch.running
    /\ sch.control = [status |-> "start", processing |-> TRUE]
    /\ sch.tick.outcome = "refused"
    /\ sch.tick.processing
    /\ sch.tick.disk = "unchecked"

(***************************************************************************)
(* Two processes running main.py against one xcam_actions table.           *)
(***************************************************************************)
Workers == {1, 2}

\* Both processes are at the top of do_worker and the table is empty.
InitWorkers ==
    /\ WorkerAtRest
    /\ cf = IdleCapture
    /\ vf = IdleValidate
    /\ tw = IdleTimelapse
    /\ vid = IdleVideo
    /\ sch = IdleRun
    /\ bk = IdleBackups
    /\ ups = IdleUpdate
    /\ wk = [pc |-> [p \in Workers |-> "poll"],
             action |-> [p \in Workers |-> 0],
             status |-> [p \in Workers |-> DONE],
             rows |-> [j \in JobIds |-> [status |-> ABSENT, kind |-> CHOOSE x \in JobKinds : TRUE]],
             marked |-> [j \in JobIds |-> {}],
             handlers |-> [j \in JobIds |-> {}]]

\* The producer inserts the next row, pending.
insert_row ==
    /\ wk.pc # <<>>
    /\ \E j \in JobIds :
        /\ wk.rows[j].status = ABSENT
        /\ \A i \in 1..(j - 1) : wk.rows[i].status # ABSENT
        /\ wk' = [wk EXCEPT !.rows[j].status = PENDING]
    /\ UNCHANGED exceptWorkers

\* do_worker lines 94-100 in one process: the SELECT of the newest pending
\* row; without one the call returns.
worker_select ==
    /\ wk.pc # <<>>
    /\ \E p \in Workers :
        /\ wk.pc[p] = "poll"
        /\ LET action == select_first_order_by(wk.rows)
           IN wk' = IF action = 0 THEN wk
                    ELSE [wk EXCEPT !.pc[p] = "claim", !.action[p] = action]
    /\ UNCHANGED exceptWorkers

\* do_worker lines 102-104 in one process: UPDATE ... SET status =
\* 'in_progress' WHERE id = the selected id.
worker_claim ==
    /\ wk.pc # <<>>
    /\ \E p \in Workers :
        /\ wk.pc[p] = "claim"
        /\ wk' = [wk EXCEPT !.rows = MarkInProgress(@, wk.action[p]),
                            !.marked[wk.action[p]] = @ \cup {p},
                            !.pc[p] = "work"]
    /\ UNCHANGED exceptWorkers

\* do_worker lines 106-107 and do_action lines 124-246 in one process: the
\* command handler runs and decides action_status.
worker_do_action ==
    /\ wk.pc # <<>>
    /\ \E p \in Workers, action_status \in {DONE, FAILED} :
        /\ wk.pc[p] = "work"
        /\ wk' = [wk EXCEPT !.handlers[wk.action[p]] = @ \cup {p},
                            !.status[p] = action_status,
                            !.pc[p] = "finally"]
    /\ UNCHANGED exceptWorkers

\* do_action lines 248-258 and do_worker lines 108-115 in one process: the
\* final status is written and the call returns.
worker_finally ==
    /\ wk.pc # <<>>
    /\ \E p \in Workers :
        /\ wk.pc[p] = "finally"
        /\ wk' = [wk EXCEPT !.rows = WriteFinalStatus(@, wk.action[p], wk.status[p]),
                            !.pc[p] = "poll",
                            !.action[p] = 0]
    /\ UNCHANGED exceptWorkers

NextWorkers ==
    \/ insert_row
    \/ worker_select
    \/ worker_claim
    \/ worker_do_action
    \/ worker_finally

SpecWorkers == InitWorkers /\ [][NextWorkers]_vars

\* C39: with two worker processes on one table, no row is marked
\* in_progress by both and handled by both.
C39_ClaimedByOneWorker ==
    \A j \in DOMAIN wk.handlers : Cardinality(wk.handlers[j] \cap wk.marked[j]) <= 1

\* Both processes selected row 1 while it was pending, both marked it
\* in_progress and both have run its command handler.
C39_Witness ==
    /\ wk.pc = [p \in Workers |-> "finally"]
    /\ wk.action = [p \in Workers |-> 1]
    /\ wk.marked[1] = Workers
    /\ wk.handlers[1] = Workers
    /\ wk.rows[1].status = IN_PROGRESS

(***************************************************************************)
(* Claim about the size of the backup folder.                              *)
(***************************************************************************)
\* C40: the backup folder never holds more than 150 backup files.
C40_AtMost150Backups ==
    bk.dir # <<>> => Cardinality(Present(bk.dir)) <= KeptBackups + BackupCleanupEvery

\* The process was killed after the 152nd frame of its session, which left
\* the backups 51..152; the session of the next process has accepted 49
\* frames and the folder holds 151 backups.
C40_Witness ==
    /\ bk.pc = "session"
    /\ bk.sessions = 2
    /\ bk.frame_count = 49
    /\ bk.accepted = 201
    /\ Present(bk.dir) = (1..152) \ {50}
    /\ Cardinality(Present(bk.dir)) = 151

====
